---- MODULE Spec2Model ----
(***************************************************************************)
(* A model of the cluster lifecycle orchestrator:                          *)
(*   - Bootstrapper.StartCluster / restartCluster / init / DeleteCluster   *)
(*     and needsReset (pkg/minikube/bootstrapper/kubeadm/kubeadm.go)       *)
(*   - LocalClient.Create (pkg/minikube/machine/client.go)                 *)
(*   - SerialDriver (pkg/libmachine/libmachine/drivers/serial.go)          *)
(*   - SSHRunner.StartCmd / WaitCmd (same file, package runner)            *)
(* Each subsystem has its own specification; the variables of the other    *)
(* subsystems are pinned to their initial value and left unchanged.        *)
(***************************************************************************)
EXTENDS Integers, Sequences, FiniteSets, TLC

VARIABLES
    \* ---- Bootstrapper (kubeadm.go) ----
    cfg,          \* the ClusterConfig facts StartCluster depends on
    pc,           \* position of the StartCluster call
    log,          \* commands and calls issued so far, in order
    ret,          \* what StartCluster returned ("running" while it has not)
    restartRet,   \* what restartCluster returned ("none" when not called/returned)
    initRet,      \* the results of the init() calls that have returned, in order
    deleteRet,    \* the results of the DeleteCluster calls, in order
    needsResetRet,\* what needsReset returned inside restartCluster ("none" before)
    k8sClient,    \* Bootstrapper.k8sClient # nil
    phase,        \* index of the next kubeadm phase command of restartCluster
    tries,        \* attempts of the addon phase made by retry.Expo
    task,         \* state of the three goroutines started by init
    wg,           \* the sync.WaitGroup counter of init
    \* ---- needsReset as a function of its probes ----
    probe,        \* the outcomes of the five checks
    nrResult,     \* the value needsReset returned for them ("none" before)
    \* ---- LocalClient.Create, one call per process (client.go) ----
    kind,         \* per process: what the registry holds for h.DriverName
    cpc,          \* per process: position of its Create call
    csteps,       \* per process: the steps of Create run so far, with their result
    ccalls,       \* per process: the calls Create made, with their result
    cret,         \* per process: what Create returned ("running" while it has not)
    flock,        \* holder of <home>/machine_client.lock (0: free)
    saved,        \* processes whose host the store holds
    \* ---- SerialDriver (serial.go, package drivers) ----
    stdLock,      \* holder of the package-level mutex stdLock (0: free)
    dpc,          \* per goroutine: position of its call through a SerialDriver
    dop,          \* per goroutine: the Driver method it is calling
    \* ---- SSHRunner (serial.go, package runner) ----
    rS,           \* SSHRunner.S: the session of the started command (0: nil)
    rC,           \* SSHRunner.C # nil
    nSess,        \* sessions StartCmd has opened so far
    scs,          \* the StartedCmd values StartCmd has returned
    outstanding,  \* sessions whose remote command was started and not waited for
    rpc,          \* position of the caller: "idle", or inside WaitCmd
    rarg,         \* the StartedCmd given to the WaitCmd in progress (0: none)
    rres,         \* the last call that returned, with its error
    rr,           \* the *RunResult the last call returned
    \* ---- SSHRunner.RunCmd (serial.go, package runner) ----
    runs,         \* RunCmd calls made so far
    xlog,         \* the attempts of s.session() in the RunCmd in progress
    xexec,        \* times the remote command of the last RunCmd was executed
    xwg,          \* the sync.WaitGroup counter of teeSSH
    xdone,        \* pumps of teeSSH that have drained their stream
    xerr,         \* what s.Run(cmd) returned ("none" while it has not)
    \* ---- minikube delete (delete.go: runDelete) ----
    delHost,      \* the store holds the host of the profile
    delProfile,   \* the profile directory exists
    delDriver,    \* MachineConfig.VMDriver of the profile's config
    delCtx,       \* the kubeconfig holds a context for the machine
    delRuns,      \* runs of `minikube delete` made so far
    delLast,      \* the last run: what it found, its faults, output and exit code
    \* ---- node.Add and node.Delete (node.go) ----
    nodes,        \* cc.Nodes
    nodesSaved,   \* the Nodes of the profile as SaveProfile last wrote it
    nodeOps,      \* calls of Add and Delete made so far
    nodeLast,     \* the last call: its arguments, cc.Nodes before it and its error
    \* ---- FakeStore (persisttest) ----
    sHosts,       \* FakeStore.Hosts: the stored hosts, by name
    sErrs,        \* the configured errors ExistsErr, ListErr, LoadErr, RemoveErr, SaveErr
    sLast,        \* the last call on the store, with what it returned
    sGhost,       \* per name: never saved, saved (with the host), or removed since
    \* ---- minikube status: legacyExitCode ----
    lsStatus,     \* the LegacyStatus the command reports
    lsExit,       \* the exit code computed for it (-1 before)
    \* ---- tunnel Manager.run ----
    tState,       \* the cluster state the tunnel reports (mockClusterInfo)
    tReady,       \* tokens in the ready channel (capacity 1)
    tCheck,       \* tokens in the check channel (capacity 1)
    tDone,        \* tokens in the done channel (capacity 1)
    tCancelled,   \* the context has been cancelled
    tExists,      \* tunnelStub.tunnelExists
    tChecked,     \* tunnelStub.timesChecked
    tStatus,      \* the status the last check returned to the manager
    tPc,          \* where Manager.run is
    tCredit,      \* the requester has taken a ready token it has not answered
    tSent,        \* check requests sent so far
    tLate,        \* the request in the check channel was sent after cancel
    tServing,     \* the request the manager received was sent after cancel
    \* ---- oci.PointToHostDockerDaemon ----
    envDocker,    \* DOCKER_HOST, DOCKER_CERT_PATH, DOCKER_TLS_VERIFY of the process
    envExisting,  \* the MINIKUBE_EXISTING_ variable of each of them
    envBefore,    \* the DOCKER_ variables as they were before the call
    envRet,       \* what PointToHostDockerDaemon returned ("none" before)
    \* ---- Bootstrapper.WaitForNode and Bootstrapper.client (kubeadm.go) ----
    wSide,        \* the side of the merge conflict in WaitForNode that was built
    wCfg,         \* n.ControlPlane and cc.VerifyComponents of the call
    wPc,          \* where WaitForNode is
    wGate,        \* the position in the list of gates
    wLog,         \* the gates probed by this call, in order
    wFailed,      \* the gate whose probe failed in this call ("none" if none)
    wRet,         \* what the call returned
    wAdvised,     \* the condition adviseNodePressure printed advice for
    wWaits,       \* calls of WaitForNode made on this bootstrapper
    wCreated,     \* clients made by kubernetes.NewForConfig for this bootstrapper
    wLastClient,  \* how the last k.client() call ended
    \* ---- Bootstrapper.Wait (pods by layer) ----
    pdCni,        \* k8s.NetworkPlugin == "cni"
    pdUp,         \* the pods that reach Running in the cluster
    pdPc,         \* where Wait is
    pdIdx,        \* the position in PodsByLayer
    pdLog,        \* the pods waited for, in order
    pdRet,        \* what Wait returned ("none" before)
    \* ---- minikube ssh (ssh.go: sshCmd) ----
    sshIn,        \* what the command finds, and the exit code of the remote command
    sshRan,       \* the remote command was run
    sshOut,       \* the message the command printed ("" for none)
    sshExit,      \* the exit code of the process (-1 while it runs)
    \* ---- startKubeletIfRequired (kubeadm.go) ----
    kbRunning,    \* pgrep kubelet finds a process on the guest
    kbFiles,      \* the kubelet service file, the systemd drop-in and their .new versions
    kbCalls,      \* calls of startKubeletIfRequired made so far
    kbFirst,      \* what the first call returned ("none" before)
    kbLast,       \* the last call: the guest before it, what it copied and started, its error
    \* ---- elevateKubeSystemPrivileges (kubeadm.go) ----
    rbBinding,    \* the minikube-rbac ClusterRoleBinding exists in the cluster
    rbSA,         \* the default ServiceAccount exists in the cluster
    rbLog,        \* the calls of elevateKubeSystemPrivileges made so far
    \* ---- Bootstrapper.client(ip, port) (kubeadm.go) ----
    kcTarget,     \* the endpoint the cached k8sClient speaks to (NoEndpoint: k8sClient is nil)
    kcLog,        \* the calls of client(ip, port) made so far on this bootstrapper
    \* ---- Cilium.GenerateCiliumYAML (cni) ----
    ciliumYaml,   \* the package variable holding the embedded cilium.yaml
    cyLog,        \* the calls of GenerateCiliumYAML made so far in this process
    \* ---- LocalClient.NewHost and LocalClient.Load (client.go) ----
    hostOp,       \* per process: the call it makes when that is not Create ("none" otherwise)
    hostRefused   \* the calls that have ended with "driver does not exist" so far

bvars == <<cfg, pc, log, ret, restartRet, initRet, deleteRet, needsResetRet,
           k8sClient, phase, tries, task, wg>>
nvars == <<probe, nrResult>>
cvars == <<kind, cpc, csteps, ccalls, cret, flock, saved>>
dvars == <<stdLock, dpc, dop>>
rvars == <<rS, rC, nSess, scs, outstanding, rpc, rarg, rres, rr>>
xvars == <<runs, xlog, xexec, xwg, xdone, xerr>>
evars == <<delHost, delProfile, delDriver, delCtx, delRuns, delLast>>
gvars == <<nodes, nodesSaved, nodeOps, nodeLast>>
svars == <<sHosts, sErrs, sLast, sGhost>>
tvars == <<lsStatus, lsExit>>
uvars == <<tState, tReady, tCheck, tDone, tCancelled, tExists, tChecked, tStatus,
           tPc, tCredit, tSent, tLate, tServing>>
kvars == <<envDocker, envExisting, envBefore, envRet>>
wvars == <<wSide, wCfg, wPc, wGate, wLog, wFailed, wRet, wAdvised, wWaits, wCreated,
           wLastClient>>
pvars == <<pdCni, pdUp, pdPc, pdIdx, pdLog, pdRet>>
hvars == <<sshIn, sshRan, sshOut, sshExit>>
lvars == <<kbRunning, kbFiles, kbCalls, kbFirst, kbLast>>
avars == <<rbBinding, rbSA, rbLog>>
fvars == <<kcTarget, kcLog>>
mvars == <<ciliumYaml, cyLog>>
ovars == <<hostOp, hostRefused>>
vars == <<bvars, nvars, cvars, dvars, rvars, xvars, evars, gvars, svars, tvars, uvars, kvars, wvars, pvars, hvars, lvars, avars, fvars, mvars, ovars>>
\* what the actions of one subsystem leave alone
notB == <<nvars, cvars, dvars, rvars, xvars, evars, gvars, svars, tvars, uvars, kvars, wvars, pvars, hvars, lvars, avars, fvars, mvars, ovars>>
notN == <<bvars, cvars, dvars, rvars, xvars, evars, gvars, svars, tvars, uvars, kvars, wvars, pvars, hvars, lvars, avars, fvars, mvars, ovars>>
notC == <<bvars, nvars, dvars, rvars, xvars, evars, gvars, svars, tvars, uvars, kvars, wvars, pvars, hvars, lvars, avars, fvars, mvars, ovars>>
notD == <<bvars, nvars, cvars, rvars, xvars, evars, gvars, svars, tvars, uvars, kvars, wvars, pvars, hvars, lvars, avars, fvars, mvars, ovars>>
notR == <<bvars, nvars, cvars, dvars, xvars, evars, gvars, svars, tvars, uvars, kvars, wvars, pvars, hvars, lvars, avars, fvars, mvars, ovars>>
notX == <<bvars, nvars, cvars, dvars, evars, gvars, svars, tvars, uvars, kvars, wvars, pvars, hvars, lvars, avars, fvars, mvars, ovars>>
notE == <<bvars, nvars, cvars, dvars, rvars, xvars, gvars, svars, tvars, uvars, kvars, wvars, pvars, hvars, lvars, avars, fvars, mvars, ovars>>
notG == <<bvars, nvars, cvars, dvars, rvars, xvars, evars, svars, tvars, uvars, kvars, wvars, pvars, hvars, lvars, avars, fvars, mvars, ovars>>
notS == <<bvars, nvars, cvars, dvars, rvars, xvars, evars, gvars, tvars, uvars, kvars, wvars, pvars, hvars, lvars, avars, fvars, mvars, ovars>>
notT == <<bvars, nvars, cvars, dvars, rvars, xvars, evars, gvars, svars, uvars, kvars, wvars, pvars, hvars, lvars, avars, fvars, mvars, ovars>>
notU == <<bvars, nvars, cvars, dvars, rvars, xvars, evars, gvars, svars, tvars, kvars, wvars, pvars, hvars, lvars, avars, fvars, mvars, ovars>>
notK == <<bvars, nvars, cvars, dvars, rvars, xvars, evars, gvars, svars, tvars, uvars, wvars, pvars, hvars, lvars, avars, fvars, mvars, ovars>>
notW == <<bvars, nvars, cvars, dvars, rvars, xvars, evars, gvars, svars, tvars, uvars, kvars, pvars, hvars, lvars, avars, fvars, mvars, ovars>>
\* what WaitForNode leaves alone besides the rest of the bootstrapper
notY == <<nvars, cvars, dvars, rvars, xvars, evars, gvars, svars, tvars, uvars, kvars, pvars, hvars, lvars, avars, fvars, mvars, ovars>>
notP == <<bvars, nvars, cvars, dvars, rvars, xvars, evars, gvars, svars, tvars, uvars, kvars, wvars, hvars, lvars, avars, fvars, mvars, ovars>>
notH == <<bvars, nvars, cvars, dvars, rvars, xvars, evars, gvars, svars, tvars, uvars, kvars, wvars, pvars, lvars, avars, fvars, mvars, ovars>>
notL == <<bvars, nvars, cvars, dvars, rvars, xvars, evars, gvars, svars, tvars, uvars, kvars, wvars, pvars, hvars, avars, fvars, mvars, ovars>>
notA == <<bvars, nvars, cvars, dvars, rvars, xvars, evars, gvars, svars, tvars, uvars, kvars, wvars, pvars, hvars, lvars, fvars, mvars, ovars>>
notF == <<bvars, nvars, cvars, dvars, rvars, xvars, evars, gvars, svars, tvars, uvars, kvars, wvars, pvars, hvars, lvars, avars, mvars, ovars>>
notM == <<bvars, nvars, cvars, dvars, rvars, xvars, evars, gvars, svars, tvars, uvars, kvars, wvars, pvars, hvars, lvars, avars, fvars, ovars>>
notO == <<bvars, nvars, cvars, dvars, rvars, xvars, evars, gvars, svars, tvars, uvars, kvars, wvars, pvars, hvars, lvars, avars, fvars, mvars>>
notZ == <<bvars, nvars, dvars, rvars, xvars, evars, gvars, svars, tvars, uvars, kvars, wvars, pvars, hvars, lvars, avars, fvars, mvars>>

(***************************************************************************)
(* Bounds                                                                  *)
(***************************************************************************)
\* attempts retry.Expo gets out of its 30 s budget for the addon phase
MaxAddonTries == 2
\* processes running LocalClient.Create at the same time
NProcs == 2
\* goroutines calling through SerialDriver values
NThreads == 2
\* StartCmd calls made on one SSHRunner
MaxCmds == 2
\* RunCmd calls made on one SSHRunner
MaxRuns == 1
\* attempts retry.Expo gets out of its 2 s budget for s.session()
MaxSessionTries == 2
\* runs of `minikube delete` on one profile
MaxDeletes == 2
\* calls of node.Add and node.Delete made on one cluster config
MaxNodeOps == 3

\* check requests sent to one tunnel manager
MaxChecks == 3

\* calls of WaitForNode on one bootstrapper
MaxWaits == 2

\* calls of startKubeletIfRequired on one guest
MaxKubeletCalls == 2

\* calls of elevateKubeSystemPrivileges on one cluster
MaxRbacCalls == 3

\* calls of client(ip, port) on one bootstrapper
MaxClientCalls == 2

\* calls of GenerateCiliumYAML in one process
MaxCiliumCalls == 3

(***************************************************************************)
(* needsReset                                                              *)
(***************************************************************************)
APIStates == {"Running", "Stopped", "Paused"}

\* the outcomes of the commands and probes needsReset makes
Probes ==
    [diffErr : BOOLEAN, statusErr : BOOLEAN, st : APIStates,
     appsErr : BOOLEAN, versionErr : BOOLEAN, nodeErr : BOOLEAN]

\* needsReset without the apiserver version check
needsReset_NoVersionCheck(p) ==
    IF p.diffErr THEN TRUE
    ELSE IF p.statusErr THEN TRUE
    ELSE IF p.st # "Running" THEN TRUE
    ELSE IF p.appsErr THEN TRUE
    ELSE IF p.nodeErr THEN TRUE
    ELSE FALSE

needsReset(p) ==
    IF p.diffErr THEN TRUE
    ELSE IF p.statusErr THEN TRUE
    ELSE IF p.st # "Running" THEN TRUE
    ELSE IF p.appsErr THEN TRUE
    ELSE IF p.versionErr THEN TRUE
    ELSE IF p.nodeErr THEN TRUE
    ELSE FALSE

NoProbe == [diffErr |-> FALSE, statusErr |-> FALSE, st |-> "Running",
            appsErr |-> FALSE, versionErr |-> FALSE, nodeErr |-> FALSE]

NeedsResetQuiet == probe = NoProbe /\ nrResult = "none"

NeedsResetInit == probe \in Probes /\ nrResult = "none"

EvalNeedsReset ==
    /\ nrResult = "none"
    /\ nrResult' = IF needsReset(probe) THEN "true" ELSE "false"
    /\ UNCHANGED <<probe, notN>>

(***************************************************************************)
(* Bootstrapper                                                            *)
(***************************************************************************)
\* versionOK: util.ParseKubernetesVersion succeeds; runtimeOK: cruntime.New
\* succeeds; hasCP: config.PrimaryControlPlane succeeds; kic: driver.IsKIC;
\* docker: ContainerRuntime = "docker"
Configs ==
    [versionOK : BOOLEAN, runtimeOK : BOOLEAN, hasCP : BOOLEAN,
     kic : BOOLEAN, docker : BOOLEAN]

\* cmds of restartCluster, in the order of the slice
cmds == <<"phase certs all", "phase kubeconfig all",
          "phase control-plane all", "phase etcd local">>

IdleTasks == [rbac |-> "idle", overlay |-> "idle", labels |-> "idle", limits |-> "idle"]

BootstrapInit ==
    /\ cfg \in Configs
    /\ pc = "sc_unpause"
    /\ log = <<>>
    /\ ret = "running"
    /\ restartRet = "none"
    /\ initRet = <<>>
    /\ deleteRet = <<>>
    /\ needsResetRet = "none"
    /\ k8sClient \in BOOLEAN   \* the bootstrapper may have built its client before
    /\ phase = 1
    /\ tries = 0
    /\ task = IdleTasks
    /\ wg = 0

\* a log entry: the command or call c and whether it succeeded (a call that
\* is only marked, or whose result is dropped unseen, is entered as ok)
E(c, ok) == [c |-> c, ok |-> ok]

Emit(c, ok) == log' = Append(log, E(c, ok))

\* StartCluster returns e
Return(e) == ret' = e /\ pc' = "done"

\* restartCluster returns e to StartCluster
RestartReturn(e) ==
    /\ restartRet' = e
    /\ IF e = "nil"
       THEN Return("nil")
       ELSE pc' = "sc_delete1" /\ UNCHANGED ret

\* init whose every failure is retried
InitReturn_AlwaysRetry(e) ==
    /\ initRet' = Append(initRet, e)
    /\ IF e = "nil"
       THEN Return(e)
       ELSE pc' = "sc_delete2" /\ UNCHANGED ret

\* init returns e to StartCluster: the first call's error leads to the
\* DeleteCluster of the retry, the second call's result is StartCluster's
InitReturn(e) ==
    /\ initRet' = Append(initRet, e)
    /\ IF e = "nil" \/ Len(initRet) = 1
       THEN Return(e)
       ELSE pc' = "sc_delete2" /\ UNCHANGED ret

Unpause ==
    /\ pc = "sc_unpause"
    /\ Emit("unpause", TRUE)
    /\ pc' = "sc_existing"
    /\ UNCHANGED <<cfg, ret, restartRet, initRet, deleteRet, needsResetRet,
                   k8sClient, phase, tries, task, wg, notB>>

ExistingConfig ==
    /\ pc = "sc_existing"
    /\ \E found \in BOOLEAN :
          IF found
          THEN /\ log' = log \o <<E("ExistingConfig", TRUE), E("restartCluster", TRUE)>>
               /\ pc' = "rc_parse"
          ELSE Emit("ExistingConfig", FALSE) /\ pc' = "sc_cp"
    /\ UNCHANGED <<cfg, ret, restartRet, initRet, deleteRet, needsResetRet,
                   k8sClient, phase, tries, task, wg, notB>>

(* ---- restartCluster ---- *)
RcParse ==
    /\ pc = "rc_parse"
    /\ IF cfg.versionOK
       THEN pc' = "rc_symlinks" /\ UNCHANGED <<ret, restartRet>>
       ELSE RestartReturn("parsing kubernetes version")
    /\ UNCHANGED <<cfg, log, initRet, deleteRet, needsResetRet,
                   k8sClient, phase, tries, task, wg, notB>>

\* createCompatSymlinks: its error is logged and dropped
RcSymlinks ==
    /\ pc = "rc_symlinks"
    /\ \E legacy \in BOOLEAN :
          IF legacy
          THEN \E linked \in BOOLEAN :
                  log' = log \o <<E("test -d", TRUE), E("ln -s", linked)>>
          ELSE Emit("test -d", FALSE)
    /\ pc' = "rc_primary"
    /\ UNCHANGED <<cfg, ret, restartRet, initRet, deleteRet, needsResetRet,
                   k8sClient, phase, tries, task, wg, notB>>

RcPrimary ==
    /\ pc = "rc_primary"
    /\ IF cfg.hasCP
       THEN pc' = "rc_endpoint" /\ UNCHANGED <<ret, restartRet>>
       ELSE RestartReturn("primary control plane")
    /\ UNCHANGED <<cfg, log, initRet, deleteRet, needsResetRet,
                   k8sClient, phase, tries, task, wg, notB>>

RcEndpoint ==
    /\ pc = "rc_endpoint"
    /\ \E ok \in BOOLEAN :
          IF ok
          THEN pc' = "rc_client" /\ UNCHANGED <<ret, restartRet>>
          ELSE RestartReturn("control plane")
    /\ UNCHANGED <<cfg, log, initRet, deleteRet, needsResetRet,
                   k8sClient, phase, tries, task, wg, notB>>

\* Bootstrapper.client: the cached client, or a new one that is cached
\* only when it could be created
RcClient ==
    /\ pc = "rc_client"
    /\ IF k8sClient
       THEN pc' = "rc_needsReset" /\ UNCHANGED <<ret, restartRet, k8sClient>>
       ELSE \E ok \in BOOLEAN :
               IF ok
               THEN k8sClient' = TRUE /\ pc' = "rc_needsReset"
                    /\ UNCHANGED <<ret, restartRet>>
               ELSE RestartReturn("getting k8s client") /\ UNCHANGED k8sClient
    /\ UNCHANGED <<cfg, log, initRet, deleteRet, needsResetRet,
                   phase, tries, task, wg, notB>>

\* restartCluster taking the shortcut when needsReset is true
RcNeedsReset_Inverted ==
    /\ pc = "rc_needsReset"
    /\ \E p \in Probes :
          IF ~needsReset(p)
          THEN /\ needsResetRet' = "false"
               /\ pc' = "rc_clear"
               /\ UNCHANGED <<ret, restartRet>>
          ELSE /\ needsResetRet' = "true"
               /\ RestartReturn("nil")
    /\ Emit("needsReset", TRUE)
    /\ UNCHANGED <<cfg, initRet, deleteRet, k8sClient, phase, tries, task, wg, notB>>

RcNeedsReset ==
    /\ pc = "rc_needsReset"
    /\ \E p \in Probes :
          IF needsReset(p)
          THEN /\ needsResetRet' = "true"
               /\ pc' = "rc_clear"
               /\ UNCHANGED <<ret, restartRet>>
          ELSE /\ needsResetRet' = "false"
               /\ RestartReturn("nil")
    /\ Emit("needsReset", TRUE)
    /\ UNCHANGED <<cfg, initRet, deleteRet, k8sClient, phase, tries, task, wg, notB>>

\* one command of restartCluster through the runner: on failure
\* restartCluster returns the error wrapped as e, otherwise goes to next
RcRun(at, c, e, next) ==
    /\ pc = at
    /\ \E ok \in BOOLEAN :
          /\ Emit(c, ok)
          /\ IF ok
             THEN pc' = next /\ UNCHANGED <<ret, restartRet>>
             ELSE RestartReturn(e)
    /\ UNCHANGED <<cfg, initRet, deleteRet, needsResetRet,
                   k8sClient, phase, tries, task, wg, notB>>

RcClear == RcRun("rc_clear", "clearStaleConfigs", "clearing stale configs", "rc_cp")

RcCp == RcRun("rc_cp", "cp", "cp", "rc_phase")

\* the phase loop left by break instead of return on a failed phase
RcPhase_BreakOnError ==
    /\ pc = "rc_phase"
    /\ \E ok \in BOOLEAN :
          /\ Emit(cmds[phase], ok)
          /\ IF ok
             THEN /\ phase' = phase + 1
                  /\ pc' = IF phase = Len(cmds) THEN "rc_runtime" ELSE "rc_phase"
             ELSE pc' = "rc_runtime" /\ UNCHANGED phase
    /\ UNCHANGED <<cfg, ret, restartRet, initRet, deleteRet, needsResetRet,
                   k8sClient, tries, task, wg, notB>>

RcPhase ==
    /\ pc = "rc_phase"
    /\ \E ok \in BOOLEAN :
          /\ Emit(cmds[phase], ok)
          /\ IF ok
             THEN /\ phase' = phase + 1
                  /\ pc' = IF phase = Len(cmds) THEN "rc_runtime" ELSE "rc_phase"
                  /\ UNCHANGED <<ret, restartRet>>
             ELSE RestartReturn("run") /\ UNCHANGED phase
    /\ UNCHANGED <<cfg, initRet, deleteRet, needsResetRet,
                   k8sClient, tries, task, wg, notB>>

RcRuntime ==
    /\ pc = "rc_runtime"
    /\ IF cfg.runtimeOK
       THEN pc' = "rc_waitproc" /\ UNCHANGED <<ret, restartRet>>
       ELSE RestartReturn("runtime")
    /\ UNCHANGED <<cfg, log, initRet, deleteRet, needsResetRet,
                   k8sClient, phase, tries, task, wg, notB>>

RcWaitProc == RcRun("rc_waitproc", "WaitForAPIServerProcess", "apiserver healthz", "rc_waithealth")

RcWaitHealth == RcRun("rc_waithealth", "WaitForHealthyAPIServer", "apiserver health", "rc_waitpods")

RcWaitPods == RcRun("rc_waitpods", "WaitForSystemPods", "system pods", "rc_addon")

\* the addon phase run once: its first failure is restartCluster's error
RcAddon_NoRetry ==
    /\ pc = "rc_addon"
    /\ tries' = tries + 1
    /\ \E ok \in BOOLEAN :
          /\ Emit("phase addon all", ok)
          /\ IF ok
             THEN pc' = "rc_limits" /\ UNCHANGED <<ret, restartRet>>
             ELSE RestartReturn("addons")
    /\ UNCHANGED <<cfg, initRet, deleteRet, needsResetRet,
                   k8sClient, phase, task, wg, notB>>

\* retry.Expo(addonPhase, 1 s, 30 s): another attempt after each failure
\* while the budget lasts
RcAddon ==
    /\ pc = "rc_addon"
    /\ tries' = tries + 1
    /\ \E ok \in BOOLEAN :
          /\ Emit("phase addon all", ok)
          /\ IF ok
             THEN pc' = "rc_limits" /\ UNCHANGED <<ret, restartRet>>
             ELSE IF tries + 1 < MaxAddonTries
                  THEN pc' = "rc_addon" /\ UNCHANGED <<ret, restartRet>>
                  ELSE RestartReturn("addons")
    /\ UNCHANGED <<cfg, initRet, deleteRet, needsResetRet,
                   k8sClient, phase, task, wg, notB>>

\* bsutil.AdjustResourceLimits: its error is logged and dropped
RcLimits ==
    /\ pc = "rc_limits"
    /\ \E ok \in BOOLEAN : Emit("AdjustResourceLimits", ok)
    /\ RestartReturn("nil")
    /\ UNCHANGED <<cfg, initRet, deleteRet, needsResetRet,
                   k8sClient, phase, tries, task, wg, notB>>

(* ---- DeleteCluster ---- *)
\* The version is parsed first; kubeadm reset runs, kubelet is stopped, and
\* the error of the reset command (derr) is what DeleteCluster returns
\* unless the runtime cannot be built.
DeleteCluster(at, next) ==
    /\ pc = at
    /\ pc' = next
    /\ IF ~cfg.versionOK
       THEN /\ Emit("DeleteCluster", TRUE)
            /\ deleteRet' = Append(deleteRet, "parsing kubernetes version")
       ELSE \E derr \in BOOLEAN :
               /\ log' = log \o <<E("DeleteCluster", TRUE), E("kubeadm reset", ~derr),
                                  E("ForceStop kubelet", TRUE)>>
               /\ deleteRet' = Append(deleteRet,
                                  IF ~cfg.runtimeOK THEN "runtime"
                                  ELSE IF derr THEN "reset" ELSE "nil")
    /\ UNCHANGED <<cfg, ret, restartRet, initRet, needsResetRet,
                   k8sClient, phase, tries, task, wg, notB>>

\* StartCluster returning the error of DeleteCluster after a failed restart
ScDeleteAfterRestart_Abort ==
    /\ pc = "sc_delete1"
    /\ IF ~cfg.versionOK
       THEN /\ Emit("DeleteCluster", TRUE)
            /\ deleteRet' = Append(deleteRet, "parsing kubernetes version")
            /\ Return("parsing kubernetes version")
       ELSE \E derr \in BOOLEAN :
               LET r == IF ~cfg.runtimeOK THEN "runtime"
                        ELSE IF derr THEN "reset" ELSE "nil"
               IN /\ log' = log \o <<E("DeleteCluster", TRUE), E("kubeadm reset", ~derr),
                                     E("ForceStop kubelet", TRUE)>>
                  /\ deleteRet' = Append(deleteRet, r)
                  /\ IF r = "nil" THEN pc' = "sc_cp" /\ UNCHANGED ret ELSE Return(r)
    /\ UNCHANGED <<cfg, restartRet, initRet, needsResetRet,
                   k8sClient, phase, tries, task, wg, notB>>

\* StartCluster, after a failed restartCluster: the error of DeleteCluster
\* is logged and dropped
ScDeleteAfterRestart == DeleteCluster("sc_delete1", "sc_cp")

\* StartCluster, after a failed first init
ScDeleteAfterInit == DeleteCluster("sc_delete2", "in_parse")

\* StartCluster going on to init without the copy of conf.new over conf
ScCp_NoCopy ==
    /\ pc = "sc_cp"
    /\ pc' = "in_parse"
    /\ UNCHANGED <<cfg, log, ret, restartRet, initRet, deleteRet, needsResetRet,
                   k8sClient, phase, tries, task, wg, notB>>

\* sudo cp conf.new conf
ScCp ==
    /\ pc = "sc_cp"
    /\ \E ok \in BOOLEAN :
          /\ Emit("cp", ok)
          /\ IF ok
             THEN pc' = "in_parse" /\ UNCHANGED ret
             ELSE Return("cp")
    /\ UNCHANGED <<cfg, restartRet, initRet, deleteRet, needsResetRet,
                   k8sClient, phase, tries, task, wg, notB>>

(* ---- init ---- *)
InParse ==
    /\ pc = "in_parse"
    /\ Emit("init", TRUE)
    /\ IF cfg.versionOK
       THEN pc' = "in_runtime" /\ UNCHANGED <<ret, initRet>>
       ELSE InitReturn("parsing kubernetes version")
    /\ UNCHANGED <<cfg, restartRet, deleteRet, needsResetRet,
                   k8sClient, phase, tries, task, wg, notB>>

InRuntime ==
    /\ pc = "in_runtime"
    /\ IF cfg.runtimeOK
       THEN pc' = "in_clear" /\ UNCHANGED <<ret, initRet>>
       ELSE InitReturn("runtime")
    /\ UNCHANGED <<cfg, log, restartRet, deleteRet, needsResetRet,
                   k8sClient, phase, tries, task, wg, notB>>

\* clearStaleConfigs fails without a primary control plane, or when one of
\* its commands fails
InClear ==
    /\ pc = "in_clear"
    /\ \E ok \in {b \in BOOLEAN : cfg.hasCP \/ ~b} :
          /\ Emit("clearStaleConfigs", ok)
          /\ IF ok
             THEN pc' = "in_run" /\ UNCHANGED <<ret, initRet>>
             ELSE InitReturn("clearing stale configs")
    /\ UNCHANGED <<cfg, restartRet, deleteRet, needsResetRet,
                   k8sClient, phase, tries, task, wg, notB>>

\* the kubeadm init command; on success wg.Add(3) and the three goroutines
InRun ==
    /\ pc = "in_run"
    /\ \E ok \in BOOLEAN :
          /\ Emit("kubeadm init", ok)
          /\ IF ok
             THEN /\ wg' = 3
                  /\ task' = [rbac |-> "started", overlay |-> "idle",
                              labels |-> "started", limits |-> "started"]
                  /\ pc' = "in_wait"
                  /\ UNCHANGED <<ret, initRet>>
             ELSE InitReturn("run") /\ UNCHANGED <<wg, task>>
    /\ UNCHANGED <<cfg, restartRet, deleteRet, needsResetRet,
                   k8sClient, phase, tries, notB>>

\* the overlay applied for every KIC driver, whatever the runtime
NeedsOverlay_AnyKIC == cfg.kic

\* whether init applies the CNI overlay
NeedsOverlay == cfg.kic /\ ~cfg.docker

\* first goroutine, elevateKubeSystemPrivileges: its error is logged; the
\* goroutine goes on to the overlay when one is needed, else to wg.Done()
TaskRBAC ==
    /\ pc = "in_wait"
    /\ task.rbac = "started"
    /\ \E ok \in BOOLEAN :
          task' = [task EXCEPT !.rbac = IF ok THEN "ok" ELSE "failed",
                               !.overlay = IF NeedsOverlay THEN "started" ELSE "idle"]
    /\ wg' = IF NeedsOverlay THEN wg ELSE wg - 1
    /\ UNCHANGED <<cfg, pc, log, ret, restartRet, initRet, deleteRet, needsResetRet,
                   k8sClient, phase, tries, notB>>

\* first goroutine, applyKICOverlay, then wg.Done()
TaskOverlay ==
    /\ pc = "in_wait"
    /\ task.overlay = "started"
    /\ \E ok \in BOOLEAN :
          task' = [task EXCEPT !.overlay = IF ok THEN "ok" ELSE "failed"]
    /\ wg' = wg - 1
    /\ UNCHANGED <<cfg, pc, log, ret, restartRet, initRet, deleteRet, needsResetRet,
                   k8sClient, phase, tries, notB>>

\* second goroutine, applyNodeLabels, then wg.Done()
TaskLabels ==
    /\ pc = "in_wait"
    /\ task.labels = "started"
    /\ \E ok \in BOOLEAN :
          task' = [task EXCEPT !.labels = IF ok THEN "ok" ELSE "failed"]
    /\ wg' = wg - 1
    /\ UNCHANGED <<cfg, pc, log, ret, restartRet, initRet, deleteRet, needsResetRet,
                   k8sClient, phase, tries, notB>>

\* third goroutine, bsutil.AdjustResourceLimits, then wg.Done()
TaskLimits ==
    /\ pc = "in_wait"
    /\ task.limits = "started"
    /\ \E ok \in BOOLEAN :
          task' = [task EXCEPT !.limits = IF ok THEN "ok" ELSE "failed"]
    /\ wg' = wg - 1
    /\ UNCHANGED <<cfg, pc, log, ret, restartRet, initRet, deleteRet, needsResetRet,
                   k8sClient, phase, tries, notB>>

\* init returning without wg.Wait()
InJoin_NoWait ==
    /\ pc = "in_wait"
    /\ InitReturn("nil")
    /\ UNCHANGED <<cfg, log, restartRet, deleteRet, needsResetRet,
                   k8sClient, phase, tries, task, wg, notB>>

\* wg.Wait() returns once the counter is zero; init returns nil
InJoin ==
    /\ pc = "in_wait"
    /\ wg = 0
    /\ InitReturn("nil")
    /\ UNCHANGED <<cfg, log, restartRet, deleteRet, needsResetRet,
                   k8sClient, phase, tries, task, wg, notB>>

BootstrapNext ==
    \/ Unpause \/ ExistingConfig
    \/ RcParse \/ RcSymlinks \/ RcPrimary \/ RcEndpoint \/ RcClient
    \/ RcNeedsReset \/ RcClear \/ RcCp \/ RcPhase \/ RcRuntime
    \/ RcWaitProc \/ RcWaitHealth \/ RcWaitPods \/ RcAddon \/ RcLimits
    \/ ScDeleteAfterRestart \/ ScDeleteAfterInit \/ ScCp
    \/ InParse \/ InRuntime \/ InClear \/ InRun
    \/ TaskRBAC \/ TaskOverlay \/ TaskLabels \/ TaskLimits \/ InJoin

(***************************************************************************)
(* LocalClient.Create                                                      *)
(***************************************************************************)
Procs == 1..NProcs

\* registry.Driver(h.DriverName): no definition ("missing"), a definition
\* without Init ("legacy"), the bare-metal driver ("none") or another
\* driver ("vm")
Kinds == {"missing", "legacy", "none", "vm"}

\* the names of the steps of Create, in the order of the slice
StepNames == <<"bootstrapping certificates", "precreate", "saving",
               "creating", "waiting", "provisioning">>

\* driver.BareMetal
BareMetal(k) == k = "none"

CreateQuiet ==
    /\ kind = [p \in Procs |-> "vm"]
    /\ cpc = [p \in Procs |-> "start"]
    /\ csteps = [p \in Procs |-> <<>>]
    /\ ccalls = [p \in Procs |-> <<>>]
    /\ cret = [p \in Procs |-> "running"]
    /\ flock = 0
    /\ saved = {}

CreateInit ==
    /\ kind \in [Procs -> Kinds]
    /\ cpc = [p \in Procs |-> "start"]
    /\ csteps = [p \in Procs |-> <<>>]
    /\ ccalls = [p \in Procs |-> <<>>]
    /\ cret = [p \in Procs |-> "running"]
    /\ flock = 0
    /\ saved = {}

Call(p, c, ok) == ccalls' = [ccalls EXCEPT ![p] = Append(@, E(c, ok))]

Calls(p, cs) == ccalls' = [ccalls EXCEPT ![p] = @ \o cs]

\* the loop over the steps: the step that has just run returned ok; a
\* failure is returned wrapped with the name of the step, else the next
\* step is run (after the last, Create returns nil)
StepDone_IgnoreError(p, i, ok, next) ==
    /\ csteps' = [csteps EXCEPT ![p] = Append(@, E(StepNames[i], ok))]
    /\ cpc' = [cpc EXCEPT ![p] = next]
    /\ cret' = [cret EXCEPT ![p] = IF next = "done" THEN "nil" ELSE @]

StepDone(p, i, ok, next) ==
    /\ csteps' = [csteps EXCEPT ![p] = Append(@, E(StepNames[i], ok))]
    /\ IF ok
       THEN /\ cpc' = [cpc EXCEPT ![p] = next]
            /\ cret' = [cret EXCEPT ![p] = IF next = "done" THEN "nil" ELSE @]
       ELSE /\ cpc' = [cpc EXCEPT ![p] = "done"]
            /\ cret' = [cret EXCEPT ![p] = StepNames[i]]

\* the registry lookup at the head of Create
CreateStart(p) ==
    /\ cpc[p] = "start"
    /\ CASE kind[p] = "missing" ->
              /\ cpc' = [cpc EXCEPT ![p] = "done"]
              /\ cret' = [cret EXCEPT ![p] = "driver does not exist"]
              /\ UNCHANGED ccalls
         [] kind[p] = "legacy" ->
              \E ok \in BOOLEAN :
                 /\ Call(p, "legacyClient.Create", ok)
                 /\ cpc' = [cpc EXCEPT ![p] = "done"]
                 /\ cret' = [cret EXCEPT ![p] = IF ok THEN "nil" ELSE "legacy"]
         [] OTHER ->
              /\ cpc' = [cpc EXCEPT ![p] = "lock"]
              /\ UNCHANGED <<ccalls, cret>>
    /\ UNCHANGED <<kind, csteps, flock, saved, notC>>

\* step 1, api.flock.LockWithTimeout(5 s): the lock is taken when it is
\* free; the call fails on a timeout (the lock is held all along) or on
\* another error, and the step then returns without generating anything
CertLock(p) ==
    /\ cpc[p] = "lock"
    /\ \E got \in {b \in BOOLEAN : b => flock = 0} :
          IF got
          THEN /\ flock' = p
               /\ Call(p, "LockWithTimeout", TRUE)
               /\ cpc' = [cpc EXCEPT ![p] = "cert"]
               /\ UNCHANGED <<csteps, cret>>
          ELSE /\ Call(p, "LockWithTimeout", FALSE)
               /\ StepDone(p, 1, FALSE, "precreate")
               /\ UNCHANGED flock
    /\ UNCHANGED <<kind, saved, notC>>

\* step 1 without the deferred Unlock when the bootstrap fails
CertBootstrap_NoUnlockOnError(p) ==
    /\ cpc[p] = "cert"
    /\ \E ok \in BOOLEAN :
          /\ IF ok
             THEN /\ Calls(p, <<E("BootstrapCertificates", ok), E("Unlock", TRUE)>>)
                  /\ flock' = 0
             ELSE /\ Call(p, "BootstrapCertificates", ok)
                  /\ UNCHANGED flock
          /\ StepDone(p, 1, ok, "precreate")
    /\ UNCHANGED <<kind, saved, notC>>

\* step 1 under the lock: cert.BootstrapCertificates, then the deferred
\* api.flock.Unlock() on the way out, whatever the result
CertBootstrap(p) ==
    /\ cpc[p] = "cert"
    /\ \E ok \in BOOLEAN :
          /\ Calls(p, <<E("BootstrapCertificates", ok), E("Unlock", TRUE)>>)
          /\ StepDone(p, 1, ok, "precreate")
    /\ flock' = 0
    /\ UNCHANGED <<kind, saved, notC>>

\* step 2, h.Driver.PreCreateCheck
PreCreate(p) ==
    /\ cpc[p] = "precreate"
    /\ \E ok \in BOOLEAN :
          /\ Call(p, "PreCreateCheck", ok)
          /\ StepDone(p, 2, ok, "saving")
    /\ UNCHANGED <<kind, flock, saved, notC>>

\* step 3, api.Save(h)
Saving(p) ==
    /\ cpc[p] = "saving"
    /\ \E ok \in BOOLEAN :
          /\ Call(p, "Save", ok)
          /\ StepDone(p, 3, ok, "creating")
          /\ saved' = IF ok THEN saved \cup {p} ELSE saved
    /\ UNCHANGED <<kind, flock, notC>>

\* step 4, h.Driver.CreateMachine
Creating(p) ==
    /\ cpc[p] = "creating"
    /\ \E ok \in BOOLEAN :
          /\ Call(p, "CreateMachine", ok)
          /\ StepDone(p, 4, ok, "waiting")
    /\ UNCHANGED <<kind, flock, saved, notC>>

\* step 5 without the check of driver.BareMetal
Waiting_AlwaysWait(p) ==
    /\ cpc[p] = "waiting"
    /\ \E ok \in BOOLEAN :
          /\ Calls(p, <<E("DriverName", TRUE), E("WaitFor", ok)>>)
          /\ StepDone(p, 5, ok, "provisioning")
    /\ UNCHANGED <<kind, flock, saved, notC>>

\* step 5: nil at once for a bare-metal driver, else
\* mcnutils.WaitFor(MachineInState(Running))
Waiting(p) ==
    /\ cpc[p] = "waiting"
    /\ IF BareMetal(kind[p])
       THEN /\ Call(p, "DriverName", TRUE)
            /\ StepDone(p, 5, TRUE, "provisioning")
       ELSE \E ok \in BOOLEAN :
               /\ Calls(p, <<E("DriverName", TRUE), E("WaitFor", ok)>>)
               /\ StepDone(p, 5, ok, "provisioning")
    /\ UNCHANGED <<kind, flock, saved, notC>>

\* step 6, provisionMachine(h)
Provisioning(p) ==
    /\ cpc[p] = "provisioning"
    /\ \E ok \in BOOLEAN :
          /\ Call(p, "provisionMachine", ok)
          /\ StepDone(p, 6, ok, "done")
    /\ UNCHANGED <<kind, flock, saved, notC>>

CreateNext ==
    \E p \in Procs :
       \/ CreateStart(p) \/ CertLock(p) \/ CertBootstrap(p) \/ PreCreate(p)
       \/ Saving(p) \/ Creating(p) \/ Waiting(p) \/ Provisioning(p)

(***************************************************************************)
(* SerialDriver                                                            *)
(***************************************************************************)
Threads == 1..NThreads

\* the methods SerialDriver defines: each takes the lock, defers Unlock and
\* calls the method of the wrapped driver
WrappedOps ==
    {"CreateMachine", "DriverName", "GetCreateFlags", "GetIP", "GetMachineName",
     "GetSSHHostname", "GetSSHKeyPath", "GetSSHPort", "GetSSHUsername", "GetURL",
     "GetMachineState", "KillMachine", "PreCreateCheck", "RemoveMachine",
     "RestartMachine", "SetConfigFromFlags", "StartMachine", "StopMachine"}

\* the methods of Driver that SerialDriver does not define: a call goes
\* to the embedded Driver, that is straight to the wrapped driver
PromotedOps == {"GetRunner"}

DriverOps == WrappedOps \cup PromotedOps

SerialInit ==
    /\ stdLock = 0
    /\ dpc = [t \in Threads |-> "idle"]
    /\ dop = [t \in Threads |-> "none"]

\* a goroutine calls op on a SerialDriver built by NewSerialDriver: a
\* wrapped method starts with d.Lock(), a promoted one is already inside
\* the wrapped driver
SerialCall(t, op) ==
    /\ dpc[t] = "idle"
    /\ dop' = [dop EXCEPT ![t] = op]
    /\ dpc' = [dpc EXCEPT ![t] = IF op \in WrappedOps THEN "locking" ELSE "inner"]
    /\ UNCHANGED <<stdLock, notD>>

\* d.Lock() returns once stdLock is free
SerialLock(t) ==
    /\ dpc[t] = "locking"
    /\ stdLock = 0
    /\ stdLock' = t
    /\ dpc' = [dpc EXCEPT ![t] = "inner"]
    /\ UNCHANGED <<dop, notD>>

\* the wrapped driver's method returns; a wrapped method then runs its
\* deferred d.Unlock()
SerialReturn(t) ==
    /\ dpc[t] = "inner"
    /\ stdLock' = IF dop[t] \in WrappedOps THEN 0 ELSE stdLock
    /\ dpc' = [dpc EXCEPT ![t] = "idle"]
    /\ dop' = [dop EXCEPT ![t] = "none"]
    /\ UNCHANGED notD

SerialNext ==
    \E t \in Threads :
       \/ \E op \in DriverOps : SerialCall(t, op)
       \/ SerialLock(t)
       \/ SerialReturn(t)

(***************************************************************************)
(* SSHRunner.StartCmd and WaitCmd                                          *)
(***************************************************************************)
NoResult == [op |-> "none", err |-> "nil"]

\* a nil *RunResult
NoRR == [has |-> FALSE, ExitCode |-> 0, teed |-> FALSE, pumpsLeft |-> 0]

\* the dynamic type of the error in `err.(*exec.ExitError)`: the errors
\* of an ssh.Session are *ssh.ExitError, *ssh.ExitMissingError or I/O errors
IsExecExitError(e) == e = "*exec.ExitError"

\* rr.ExitCode after `if exitError, ok := err.(*exec.ExitError); ok {...}`:
\* the zero value unless the assertion holds
ExitCodeOf(e) == IF IsExecExitError(e) THEN 1 ELSE 0

RunnerInit ==
    /\ rS = 0
    /\ rC = FALSE
    /\ nSess = 0
    /\ scs = <<>>
    /\ outstanding = {}
    /\ rpc = "idle"
    /\ rarg = 0
    /\ rres = NoResult
    /\ rr = NoRR
    /\ runs = 0
    /\ xlog = <<>>
    /\ xexec = 0
    /\ xwg = 0
    /\ xdone = {}
    /\ xerr = "none"

\* how far teeSSHStart gets on a new session: a pipe cannot be had (no
\* pump is started, the command is not started), or the pumps are started
\* and s.Start(cmd) fails, or the command is started
StartOutcomes == {"pipe", "start", "ok"}

\* a StartedCmd: the session StartCmd opened for it (0: none), its wait
\* group counter, whether its two pumps were started and whether the
\* remote command was
NewStartedCmd(sess, o) ==
    [sess |-> sess, wg |-> 2, pumps |-> (sess # 0 /\ o # "pipe"),
     started |-> (sess # 0 /\ o = "ok")]

\* StartCmd without the check of s.S
StartCmd_NoBusyCheck(stdin) ==
    /\ rpc = "idle"
    /\ Len(scs) < MaxCmds
    /\ IF stdin
       THEN /\ rres' = [op |-> "StartCmd", err |-> "stdin"]
            /\ UNCHANGED <<rS, rC, nSess, scs, outstanding>>
       ELSE \E opened \in BOOLEAN :
          IF ~opened
          THEN /\ rC' = FALSE
               /\ scs' = Append(scs, NewStartedCmd(0, "pipe"))
               /\ rres' = [op |-> "StartCmd", err |-> "NewSession"]
               /\ UNCHANGED <<rS, nSess, outstanding>>
          ELSE \E o \in StartOutcomes :
                  /\ rC' = TRUE
                  /\ nSess' = nSess + 1
                  /\ rS' = nSess + 1
                  /\ scs' = Append(scs, NewStartedCmd(nSess + 1, o))
                  /\ outstanding' = IF o = "ok"
                                    THEN outstanding \cup {nSess + 1}
                                    ELSE outstanding
                  /\ rres' = [op |-> "StartCmd", err |-> IF o = "ok" THEN "nil" ELSE o]
    /\ rr' = NoRR
    /\ UNCHANGED <<rpc, rarg, notR>>

\* StartCmd(cmd): refused when cmd has a stdin or when s.S is set; else a
\* StartedCmd is made, a session is opened (s.session(), which leaves
\* s.C nil when it fails) and kept in s.S, and teeSSHStart is run on it
StartCmd(stdin) ==
    /\ rpc = "idle"
    /\ Len(scs) < MaxCmds
    /\ IF stdin
       THEN /\ rres' = [op |-> "StartCmd", err |-> "stdin"]
            /\ UNCHANGED <<rS, rC, nSess, scs, outstanding>>
       ELSE IF rS # 0
       THEN /\ rres' = [op |-> "StartCmd", err |-> "busy"]
            /\ UNCHANGED <<rS, rC, nSess, scs, outstanding>>
       ELSE \E opened \in BOOLEAN :
          IF ~opened
          THEN /\ rC' = FALSE
               /\ scs' = Append(scs, NewStartedCmd(0, "pipe"))
               /\ rres' = [op |-> "StartCmd", err |-> "NewSession"]
               /\ UNCHANGED <<rS, nSess, outstanding>>
          ELSE \E o \in StartOutcomes :
                  /\ rC' = TRUE
                  /\ nSess' = nSess + 1
                  /\ rS' = nSess + 1
                  /\ scs' = Append(scs, NewStartedCmd(nSess + 1, o))
                  /\ outstanding' = IF o = "ok"
                                    THEN outstanding \cup {nSess + 1}
                                    ELSE outstanding
                  /\ rres' = [op |-> "StartCmd", err |-> IF o = "ok" THEN "nil" ELSE o]
    /\ rr' = NoRR
    /\ UNCHANGED <<rpc, rarg, notR>>

\* WaitCmd(sc) is called with a StartedCmd that StartCmd returned: it
\* fails at once when s.S is nil, else it blocks in s.S.Wait() and
\* sc.wg.Wait()
WaitCmdCall(k) ==
    /\ rpc = "idle"
    /\ k \in DOMAIN scs
    /\ IF rS = 0
       THEN /\ rres' = [op |-> "WaitCmd", err |-> "no command"]
            /\ rr' = NoRR
            /\ UNCHANGED <<rpc, rarg>>
       ELSE /\ rpc' = "waiting"
            /\ rarg' = k
            /\ UNCHANGED <<rres, rr>>
    /\ UNCHANGED <<rS, rC, nSess, scs, outstanding, notR>>

\* a pump that was started reaches the end of its stream and calls
\* wg.Done()
PumpDone(k) ==
    /\ k \in DOMAIN scs
    /\ scs[k].pumps
    /\ scs[k].wg > 0
    /\ scs' = [scs EXCEPT ![k].wg = @ - 1]
    /\ UNCHANGED <<rS, rC, nSess, outstanding, rpc, rarg, rres, rr, notR>>

\* the session the WaitCmd in progress waits on is that of a started command
Started(sess) == \E k \in DOMAIN scs : scs[k].sess = sess /\ scs[k].started

\* WaitCmd returns: s.S.Wait() has returned (an error when the remote
\* command failed or was never started), sc.wg.Wait() has returned, the
\* session is closed and s.S is nil again
WaitCmdReturn ==
    /\ rpc = "waiting"
    /\ scs[rarg].wg = 0
    /\ \E exit \in {"nil", "exit"} :
          rres' = [op |-> "WaitCmd",
                   err |-> IF Started(rS) THEN exit ELSE "not started"]
    /\ rr' = [has |-> TRUE, ExitCode |-> ExitCodeOf(rres'.err),
              teed |-> scs[rarg].pumps, pumpsLeft |-> scs[rarg].wg]
    /\ rS' = 0
    /\ outstanding' = outstanding \ {rS}
    /\ rpc' = "idle"
    /\ rarg' = 0
    /\ UNCHANGED <<rC, nSess, scs, notR>>

(***************************************************************************)
(* SSHRunner.RunCmd, with s.session() and teeSSH                           *)
(***************************************************************************)
\* what s.Run(cmd) returns: nil, the remote command exited non-zero, it
\* ended without an exit status, or it could not be started
RunErrors == {"nil", "*ssh.ExitError", "*ssh.ExitMissingError", "start"}

Pumps == {"stdout", "stderr"}

\* a *RunResult made by RunCmd: `rr := &RunResult{Args: cmd.Args}`, with
\* the exit code set from the error e
RunResultOf(e, teed, left) ==
    [has |-> TRUE, ExitCode |-> ExitCodeOf(e), teed |-> teed, pumpsLeft |-> left]

\* RunCmd(cmd) is called: refused with a nil result when cmd has a stdin,
\* else it goes on to s.session()
RunCmdCall(stdin) ==
    /\ rpc = "idle"
    /\ runs < MaxRuns
    /\ runs' = runs + 1
    /\ xexec' = 0
    /\ UNCHANGED <<xlog, xwg, xdone, xerr>>
    /\ IF stdin
       THEN /\ rres' = [op |-> "RunCmd", err |-> "stdin"]
            /\ rr' = NoRR
            /\ UNCHANGED rpc
       ELSE /\ rpc' = "session"
            /\ UNCHANGED <<rres, rr>>
    /\ UNCHANGED <<rS, rC, nSess, scs, outstanding, rarg, notX>>

\* getSession without `s.C = nil` on a session error
GetSession_KeepClient ==
    /\ rpc = "session"
    /\ Len(xlog) < MaxSessionTries
    /\ \E dialOK, sessOK \in BOOLEAN :
          LET dialed == ~rC
          IN IF dialed /\ ~dialOK
             THEN /\ xlog' = Append(xlog, [dialed |-> TRUE, out |-> "new client"])
                  /\ UNCHANGED <<rC, rpc>>
             ELSE IF ~sessOK
             THEN /\ xlog' = Append(xlog, [dialed |-> dialed, out |-> "session"])
                  /\ rC' = TRUE
                  /\ UNCHANGED rpc
             ELSE /\ xlog' = Append(xlog, [dialed |-> dialed, out |-> "ok"])
                  /\ rC' = TRUE
                  /\ rpc' = "tee"
    /\ UNCHANGED <<rS, nSess, scs, outstanding, rarg, rres, rr,
                   runs, xexec, xwg, xdone, xerr, notX>>

\* one attempt of getSession inside retry.Expo: s.client() returns the
\* cached client or dials a new one; client.NewSession() is called on it
\* and, when it fails, s.C is set to nil
GetSession ==
    /\ rpc = "session"
    /\ Len(xlog) < MaxSessionTries
    /\ \E dialOK, sessOK \in BOOLEAN :
          LET dialed == ~rC
          IN IF dialed /\ ~dialOK
             THEN /\ xlog' = Append(xlog, [dialed |-> TRUE, out |-> "new client"])
                  /\ UNCHANGED <<rC, rpc>>
             ELSE IF ~sessOK
             THEN /\ xlog' = Append(xlog, [dialed |-> dialed, out |-> "session"])
                  /\ rC' = FALSE
                  /\ UNCHANGED rpc
             ELSE /\ xlog' = Append(xlog, [dialed |-> dialed, out |-> "ok"])
                  /\ rC' = TRUE
                  /\ rpc' = "tee"
    /\ UNCHANGED <<rS, nSess, scs, outstanding, rarg, rres, rr,
                   runs, xexec, xwg, xdone, xerr, notX>>

\* retry.Expo runs out of time after a failed attempt: s.session() returns
\* the error and RunCmd returns rr with it, wrapped as "NewSession"
SessionGiveUp ==
    /\ rpc = "session"
    /\ Len(xlog) >= 1
    /\ rpc' = "idle"
    /\ rres' = [op |-> "RunCmd", err |-> "NewSession"]
    /\ rr' = RunResultOf("NewSession", FALSE, 0)
    /\ xlog' = <<>>
    /\ UNCHANGED <<rS, rC, nSess, scs, outstanding, rarg,
                   runs, xexec, xwg, xdone, xerr, notX>>

\* teeSSH up to s.Run(cmd): a pipe cannot be had and teeSSH returns the
\* error, or wg.Add(2) and the two pumps are started
TeeSSH ==
    /\ rpc = "tee"
    /\ \E pipes \in BOOLEAN :
          IF pipes
          THEN /\ xwg' = 2
               /\ rpc' = "run"
               /\ UNCHANGED <<rres, rr, xlog>>
          ELSE /\ rpc' = "idle"
               /\ rres' = [op |-> "RunCmd", err |-> "pipe"]
               /\ rr' = RunResultOf("pipe", FALSE, 0)
               /\ xlog' = <<>>
               /\ UNCHANGED xwg
    /\ UNCHANGED <<rS, rC, nSess, scs, outstanding, rarg,
                   runs, xexec, xdone, xerr, notX>>

\* s.Run(cmd) returns: the remote command has been executed unless it
\* could not be started
Run ==
    /\ rpc = "run"
    /\ xerr = "none"
    /\ \E e \in RunErrors :
          /\ xerr' = e
          /\ xexec' = IF e = "start" THEN xexec ELSE xexec + 1
    /\ UNCHANGED <<rvars, runs, xlog, xwg, xdone, notX>>

\* a pump of teeSSH reaches the end of its stream and calls wg.Done()
TeePump(pump) ==
    /\ rpc = "run"
    /\ pump \notin xdone
    /\ xdone' = xdone \cup {pump}
    /\ xwg' = xwg - 1
    /\ UNCHANGED <<rvars, runs, xlog, xexec, xerr, notX>>

\* RunCmd returning as soon as s.Run(cmd) has, without wg.Wait()
RunCmdReturn_NoWait ==
    /\ rpc = "run"
    /\ xerr # "none"
    /\ rpc' = "idle"
    /\ rres' = [op |-> "RunCmd", err |-> xerr]
    /\ rr' = RunResultOf(xerr, TRUE, Cardinality(Pumps \ xdone))
    /\ xlog' = <<>>
    /\ xwg' = 0
    /\ xdone' = {}
    /\ xerr' = "none"
    /\ UNCHANGED <<rS, rC, nSess, scs, outstanding, rarg, runs, xexec, notX>>

\* teeSSH returns after s.Run(cmd) and wg.Wait(); RunCmd sets rr.ExitCode
\* from the error, closes the session and returns rr with the error (the
\* locals of the call are gone)
RunCmdReturn ==
    /\ rpc = "run"
    /\ xerr # "none"
    /\ xwg = 0
    /\ rpc' = "idle"
    /\ rres' = [op |-> "RunCmd", err |-> xerr]
    /\ rr' = RunResultOf(xerr, TRUE, Cardinality(Pumps \ xdone))
    /\ xlog' = <<>>
    /\ xwg' = 0
    /\ xdone' = {}
    /\ xerr' = "none"
    /\ UNCHANGED <<rS, rC, nSess, scs, outstanding, rarg, runs, xexec, notX>>

RunnerNext ==
    \/ \E stdin \in BOOLEAN : StartCmd(stdin)
    \/ \E k \in 1..MaxCmds : WaitCmdCall(k) \/ PumpDone(k)
    \/ WaitCmdReturn
    \/ \E stdin \in BOOLEAN : RunCmdCall(stdin)
    \/ GetSession
    \/ SessionGiveUp
    \/ TeeSSH
    \/ Run
    \/ \E pump \in Pumps : TeePump(pump)
    \/ RunCmdReturn

(***************************************************************************)
(* minikube delete: runDelete                                              *)
(***************************************************************************)
\* what can go wrong in the environment of one run, whatever the profile:
\* NewAPIClient, config.Load, the driver in DeleteHost, KillMountProcess,
\* os.RemoveAll, DeleteKubeConfigContext
DeleteFaults == {"api", "load", "host", "mount", "rm", "ctx"}

\* the exit code of exit.Usage and exit.WithError, a non-zero code
ExitFailure == 1

NoDelete ==
    [host |-> FALSE, profile |-> FALSE, faults |-> {}, out |-> <<>>, exit |-> 0]

DeleteQuiet ==
    /\ delHost = FALSE
    /\ delProfile = FALSE
    /\ delDriver = "vm"
    /\ delCtx = FALSE
    /\ delRuns = 0
    /\ delLast = NoDelete

\* a profile in any state: created, never created, or left by a full or
\* partial delete
DeleteInit ==
    /\ delHost \in BOOLEAN
    /\ delProfile \in BOOLEAN
    /\ delDriver \in {"none", "vm"}
    /\ delCtx \in BOOLEAN
    /\ delRuns = 0
    /\ delLast = NoDelete

\* pkg_config.Load(): the config is read from the profile directory
ConfigLoad(profile, fault) ==
    IF fault THEN "error" ELSE IF profile THEN "nil" ELSE "IsNotExist"

\* cluster.DeleteHost(api): a host the store does not hold is reported as
\* mcnerror.ErrHostDoesNotExist
DeleteHost(host, fault) ==
    IF ~host THEN "ErrHostDoesNotExist" ELSE IF fault THEN "error" ELSE "nil"

\* the switch on the error of DeleteHost with every error fatal
HostErrorFatal_All(err) == err # "nil"

\* the switch on the cause of the error of DeleteHost: only
\* ErrHostDoesNotExist is reported and passed over
HostErrorFatal(err) == err \notin {"nil", "ErrHostDoesNotExist"}

\* os.RemoveAll(path): nil when the path does not exist
RemoveAll(exists, fault) == IF fault THEN "error" ELSE "nil"

\* os.IsNotExist(err)
IsNotExist(err) == err = "IsNotExist"

\* the run ends: its record is kept
DeleteExit(faults, out, code) ==
    /\ delLast' = [host |-> delHost, profile |-> delProfile, faults |-> faults,
                   out |-> out, exit |-> code]
    /\ delRuns' = delRuns + 1

\* one run of `minikube delete` for the profile, with positional
\* arguments or not and with the faults of its environment
RunDelete(args, faults) ==
    /\ delRuns < MaxDeletes
    /\ UNCHANGED <<delDriver, notE>>
    /\ IF args
       THEN /\ DeleteExit(faults, <<"usage: minikube delete">>, ExitFailure)
            /\ UNCHANGED <<delHost, delProfile, delCtx>>
       ELSE IF "api" \in faults
       THEN /\ DeleteExit(faults, <<"Error getting client">>, ExitFailure)
            /\ UNCHANGED <<delHost, delProfile, delCtx>>
       ELSE
         LET lerr == ConfigLoad(delProfile, "load" \in faults)
             o1 == IF lerr # "nil" /\ ~IsNotExist(lerr)
                   THEN <<"Error loading profile config">> ELSE <<>>
             o2 == IF lerr = "nil" /\ delDriver = "none"
                   THEN o1 \o <<"Uninstalling Kubernetes">> ELSE o1
             herr == DeleteHost(delHost, "host" \in faults)
         IN IF HostErrorFatal(herr)
            THEN /\ DeleteExit(faults, o2 \o <<"Failed to delete cluster">>, ExitFailure)
                 /\ UNCHANGED <<delHost, delProfile, delCtx>>
            ELSE
              LET o3 == IF herr = "ErrHostDoesNotExist"
                        THEN o2 \o <<"cluster does not exist">> ELSE o2
                  o4 == IF "mount" \in faults
                        THEN o3 \o <<"Failed to kill mount process">> ELSE o3
                  rerr == RemoveAll(delProfile, "rm" \in faults)
              IN /\ delHost' = FALSE
                 /\ IF rerr # "nil"
                    THEN /\ IF IsNotExist(rerr)
                            THEN DeleteExit(faults, o4 \o <<"profile does not exist">>, 0)
                            ELSE DeleteExit(faults, o4 \o <<"Failed to remove profile">>,
                                            ExitFailure)
                         /\ UNCHANGED <<delProfile, delCtx>>
                    ELSE /\ delProfile' = FALSE
                         /\ IF "ctx" \in faults
                            THEN /\ DeleteExit(faults,
                                       o4 \o <<"cluster has been deleted", "update config">>,
                                       ExitFailure)
                                 /\ UNCHANGED delCtx
                            ELSE /\ DeleteExit(faults, o4 \o <<"cluster has been deleted">>, 0)
                                 /\ delCtx' = FALSE

DeleteNext == \E args \in BOOLEAN, faults \in SUBSET DeleteFaults : RunDelete(args, faults)

(***************************************************************************)
(* node.Add, node.Delete, node.Retrieve                                    *)
(***************************************************************************)
NodeNames == {"m01", "m02"}

\* cc.KubernetesConfig.KubernetesVersion
ClusterVersion == "v1.17.0"

\* the k8sVersion argument of Add
VersionArgs == {"", "v1.16.0"}

Node(name, cp, worker, version) ==
    [Name |-> name, ControlPlane |-> cp, Worker |-> worker,
     KubernetesVersion |-> version]

\* a cluster config with its one control-plane node
PrimaryNode == Node("m01", TRUE, TRUE, ClusterVersion)

NoNodeOp == [op |-> "none", name |-> "", cp |-> FALSE, worker |-> FALSE,
             version |-> "", before |-> <<>>, warned |-> FALSE, err |-> "nil"]

NodeInit ==
    /\ nodes = <<PrimaryNode>>
    /\ nodesSaved = <<PrimaryNode>>
    /\ nodeOps = 0
    /\ nodeLast = NoNodeOp

\* the node Add builds from its arguments: Worker is set in the literal,
\* ControlPlane and Worker are set when the arguments are true
NewNode(name, controlPlane, worker, k8sVersion) ==
    Node(name,
         IF controlPlane THEN TRUE ELSE FALSE,
         IF worker THEN TRUE ELSE TRUE,
         IF k8sVersion # "" THEN k8sVersion ELSE ClusterVersion)

\* Retrieve(cc, name): the index of the first node of that name, -1 when
\* there is none
Retrieve(ns, name) ==
    IF \E i \in DOMAIN ns : ns[i].Name = name
    THEN CHOOSE i \in DOMAIN ns :
            /\ ns[i].Name = name
            /\ \A j \in DOMAIN ns : ns[j].Name = name => i <= j
    ELSE -1

\* append(s[:index], s[index+1:]...)
RemoveAt(ns, index) ==
    [i \in 1..(Len(ns) - 1) |-> IF i < index THEN ns[i] ELSE ns[i + 1]]

\* Stop(cc, n)
Stop(n) == "nil"

\* Add(cc, name, controlPlane, worker, k8sVersion, profileName): the node
\* is appended to cc.Nodes, the profile is saved and the node started
Add(name, controlPlane, worker, k8sVersion, saveOK) ==
    /\ nodeOps < MaxNodeOps
    /\ nodeOps' = nodeOps + 1
    /\ nodes' = Append(nodes, NewNode(name, controlPlane, worker, k8sVersion))
    /\ nodesSaved' = IF saveOK THEN nodes' ELSE nodesSaved
    /\ nodeLast' = [op |-> "Add", name |-> name, cp |-> controlPlane,
                    worker |-> worker, version |-> k8sVersion, before |-> nodes,
                    warned |-> FALSE,
                    err |-> IF saveOK THEN "nil" ELSE "SaveProfile"]
    /\ UNCHANGED notG

\* Delete(cc, name): the node is looked up, stopped (a failure is only
\* logged), cut out of cc.Nodes, and the profile is saved
Delete(name, saveOK) ==
    /\ nodeOps < MaxNodeOps
    /\ nodeOps' = nodeOps + 1
    /\ LET index == Retrieve(nodes, name)
       IN IF index = -1
          THEN /\ nodeLast' = [NoNodeOp EXCEPT !.op = "Delete", !.name = name,
                                 !.before = nodes, !.err = "Could not find node"]
               /\ UNCHANGED <<nodes, nodesSaved>>
          ELSE /\ nodes' = RemoveAt(nodes, index)
               /\ nodesSaved' = IF saveOK THEN nodes' ELSE nodesSaved
               /\ nodeLast' = [NoNodeOp EXCEPT !.op = "Delete", !.name = name,
                                 !.before = nodes,
                                 !.warned = (Stop(nodes[index]) # "nil"),
                                 !.err = IF saveOK THEN "nil" ELSE "SaveProfile"]
    /\ UNCHANGED notG

NodeNext ==
    \/ \E name \in NodeNames, controlPlane, worker, saveOK \in BOOLEAN,
          k8sVersion \in VersionArgs :
          Add(name, controlPlane, worker, k8sVersion, saveOK)
    \/ \E name \in NodeNames, saveOK \in BOOLEAN : Delete(name, saveOK)

(***************************************************************************)
(* FakeStore: Exists, List, Load, Remove, Save                             *)
(***************************************************************************)
StoreNames == {"my-host", "my-host-2"}

\* hosts of a name differ in their configuration
HostRevs == {1, 2}

Host(name, rev) == [Name |-> name, Rev |-> rev]

\* a nil *host.Host
NilHost == Host("", 0)

StoreOps == {"Exists", "List", "Load", "Remove", "Save"}

\* what a configured error field holds: nil or an error value
ErrValues == {"nil", "error A", "error B"}

NoStoreCall ==
    [op |-> "none", name |-> "", had |-> FALSE, ok |-> FALSE, host |-> NilHost,
     names |-> {}, err |-> "nil"]

StoreInit ==
    /\ sHosts = <<>>
    /\ sErrs = [o \in StoreOps |-> "nil"]
    /\ sLast = NoStoreCall
    /\ sGhost = [n \in StoreNames |-> [st |-> "never", host |-> NilHost]]

\* the test sets one of the error fields of the store
SetErr(op, e) ==
    /\ sErrs[op] # e
    /\ sErrs' = [sErrs EXCEPT ![op] = e]
    /\ sLast' = NoStoreCall
    /\ UNCHANGED <<sHosts, sGhost, notS>>

\* store.Exists(name)
StoreExists(name) ==
    /\ sLast' = [NoStoreCall EXCEPT !.op = "Exists", !.name = name,
                   !.had = (name \in DOMAIN sHosts),
                   !.ok = (sErrs["Exists"] = "nil" /\ name \in DOMAIN sHosts),
                   !.err = sErrs["Exists"]]
    /\ UNCHANGED <<sHosts, sErrs, sGhost, notS>>

\* store.List()
StoreList ==
    /\ sLast' = [NoStoreCall EXCEPT !.op = "List",
                   !.names = IF sErrs["List"] = "nil" THEN DOMAIN sHosts ELSE {},
                   !.err = sErrs["List"]]
    /\ UNCHANGED <<sHosts, sErrs, sGhost, notS>>

\* store.Load(name)
StoreLoad(name) ==
    /\ sLast' = [NoStoreCall EXCEPT !.op = "Load", !.name = name,
                   !.had = (name \in DOMAIN sHosts),
                   !.host = IF sErrs["Load"] = "nil" /\ name \in DOMAIN sHosts
                            THEN sHosts[name] ELSE NilHost,
                   !.err = IF sErrs["Load"] # "nil" THEN sErrs["Load"]
                           ELSE IF name \in DOMAIN sHosts THEN "nil"
                           ELSE "ErrHostDoesNotExist"]
    /\ UNCHANGED <<sHosts, sErrs, sGhost, notS>>

\* store.Remove(name) that fails for a name that is not stored
StoreRemove_Strict(name) ==
    /\ sLast' = [NoStoreCall EXCEPT !.op = "Remove", !.name = name,
                   !.had = (name \in DOMAIN sHosts),
                   !.err = IF sErrs["Remove"] # "nil" THEN sErrs["Remove"]
                           ELSE IF name \in DOMAIN sHosts THEN "nil"
                           ELSE "ErrHostDoesNotExist"]
    /\ IF sLast'.err = "nil"
       THEN /\ sHosts' = [n \in DOMAIN sHosts \ {name} |-> sHosts[n]]
            /\ sGhost' = [sGhost EXCEPT ![name] =
                            IF @.st = "never" THEN @
                            ELSE [st |-> "removed", host |-> NilHost]]
       ELSE UNCHANGED <<sHosts, sGhost>>
    /\ UNCHANGED <<sErrs, notS>>

\* store.Remove(name)
StoreRemove(name) ==
    /\ sLast' = [NoStoreCall EXCEPT !.op = "Remove", !.name = name,
                   !.had = (name \in DOMAIN sHosts),
                   !.err = sErrs["Remove"]]
    /\ IF sErrs["Remove"] = "nil"
       THEN /\ sHosts' = [n \in DOMAIN sHosts \ {name} |-> sHosts[n]]
            /\ sGhost' = [sGhost EXCEPT ![name] =
                            IF @.st = "never" THEN @
                            ELSE [st |-> "removed", host |-> NilHost]]
       ELSE UNCHANGED <<sHosts, sGhost>>
    /\ UNCHANGED <<sErrs, notS>>

\* store.Save(h) that stores the host before it looks at SaveErr
StoreSave_ThenFail(h) ==
    /\ sLast' = [NoStoreCall EXCEPT !.op = "Save", !.name = h.Name,
                   !.had = (h.Name \in DOMAIN sHosts), !.host = h,
                   !.err = sErrs["Save"]]
    /\ sHosts' = [n \in DOMAIN sHosts \cup {h.Name} |->
                     IF n = h.Name THEN h ELSE sHosts[n]]
    /\ sGhost' = IF sErrs["Save"] = "nil"
                 THEN [sGhost EXCEPT ![h.Name] = [st |-> "saved", host |-> h]]
                 ELSE sGhost
    /\ UNCHANGED <<sErrs, notS>>

\* store.Save(h) that keeps the host already stored under the name
StoreSave_KeepFirst(h) ==
    /\ sLast' = [NoStoreCall EXCEPT !.op = "Save", !.name = h.Name,
                   !.had = (h.Name \in DOMAIN sHosts), !.host = h,
                   !.err = sErrs["Save"]]
    /\ IF sErrs["Save"] = "nil"
       THEN /\ sHosts' = [n \in DOMAIN sHosts \cup {h.Name} |->
                             IF n \in DOMAIN sHosts THEN sHosts[n] ELSE h]
            /\ sGhost' = [sGhost EXCEPT ![h.Name] = [st |-> "saved", host |-> h]]
       ELSE UNCHANGED <<sHosts, sGhost>>
    /\ UNCHANGED <<sErrs, notS>>

\* store.Save(h)
StoreSave(h) ==
    /\ sLast' = [NoStoreCall EXCEPT !.op = "Save", !.name = h.Name,
                   !.had = (h.Name \in DOMAIN sHosts), !.host = h,
                   !.err = sErrs["Save"]]
    /\ IF sErrs["Save"] = "nil"
       THEN /\ sHosts' = [n \in DOMAIN sHosts \cup {h.Name} |->
                             IF n = h.Name THEN h ELSE sHosts[n]]
            /\ sGhost' = [sGhost EXCEPT ![h.Name] = [st |-> "saved", host |-> h]]
       ELSE UNCHANGED <<sHosts, sGhost>>
    /\ UNCHANGED <<sErrs, notS>>

StoreNext ==
    \/ \E op \in StoreOps, e \in ErrValues : SetErr(op, e)
    \/ \E name \in StoreNames : StoreExists(name) \/ StoreLoad(name) \/ StoreRemove(name)
    \/ StoreList
    \/ \E name \in StoreNames, rev \in HostRevs : StoreSave(Host(name, rev))

(***************************************************************************)
(* minikube status: legacyExitCode                                         *)
(***************************************************************************)
HostStates == {"Running", "Stopped", "Nonexistent"}

KubeletStates == {"Running", "Stopped", "Nonexistent"}

APIServerStates == {"Running", "Paused", "Stopped", "Nonexistent"}

KubeconfigStates == {"Configured", "Misconfigured", "Nonexistent"}

LegacyStatus(host, kubelet, apiserver, kubeconfig) ==
    [Host |-> host, Kubelet |-> kubelet, APIServer |-> apiserver,
     Kubeconfig |-> kubeconfig]

StatusQuiet ==
    /\ lsStatus = LegacyStatus("Running", "Running", "Running", "Configured")
    /\ lsExit = -1

StatusInit ==
    /\ lsStatus \in [Host : HostStates, Kubelet : KubeletStates,
                     APIServer : APIServerStates, Kubeconfig : KubeconfigStates]
    /\ lsExit = -1

\* every component is up
StatusOK(st) ==
    /\ st.Host = "Running"
    /\ st.Kubelet = "Running"
    /\ st.APIServer = "Running"
    /\ st.Kubeconfig = "Configured"

\* the host is up and the apiserver is paused
StatusPaused(st) == st.Host = "Running" /\ st.APIServer = "Paused"

\* legacyExitCode that reports a paused cluster as down
legacyExitCode_PausedIsDown(st) ==
    IF StatusOK(st) THEN 0 ELSE 7

\* legacyExitCode of one status: 0 ok, 2 paused, 7 down or missing
legacyExitCode(st) ==
    IF StatusOK(st) THEN 0
    ELSE IF StatusPaused(st) THEN 2
    ELSE 7

\* the status command computes its exit code
StatusExit ==
    /\ lsExit = -1
    /\ lsExit' = legacyExitCode(lsStatus)
    /\ UNCHANGED <<lsStatus, notT>>

(***************************************************************************)
(* tunnel: Manager.run, driven as TestTunnelManagerEventHandling drives it *)
(***************************************************************************)
TunnelStates == {"Running", "Stopped"}

TunnelQuiet ==
    /\ tState = "Running"
    /\ tReady = 0 /\ tCheck = 0 /\ tDone = 0
    /\ tCancelled = FALSE
    /\ tExists = FALSE
    /\ tChecked = 0
    /\ tStatus = "none"
    /\ tPc = "start"
    /\ tCredit = 0
    /\ tSent = 0
    /\ tLate = FALSE
    /\ tServing = FALSE

\* &Manager{}, &tunnelStub{}, three channels of capacity 1, a fresh context
TunnelInit ==
    /\ tState \in TunnelStates
    /\ tReady = 0 /\ tCheck = 0 /\ tDone = 0
    /\ tCancelled = FALSE
    /\ tExists = FALSE
    /\ tChecked = 0
    /\ tStatus = "none"
    /\ tPc = "start"
    /\ tCredit = 0
    /\ tSent = 0
    /\ tLate = FALSE
    /\ tServing = FALSE

\* updateTunnelStatus that always reports a running cluster
updateTunnelStatus_AlwaysRunning ==
    /\ tExists' = (tState = "Running")
    /\ tChecked' = tChecked + 1
    /\ tStatus' = "Running"

\* tunnelStub.updateTunnelStatus
updateTunnelStatus ==
    /\ tExists' = (tState = "Running")
    /\ tChecked' = tChecked + 1
    /\ tStatus' = tState

\* cleanup that leaves the tunnel in place
cleanup_Keep ==
    tExists' = tExists

\* tunnelStub.cleanup
cleanup ==
    tExists' = FALSE

\* run: ready <- true before the loop
RunReady ==
    /\ tPc = "start"
    /\ tReady = 0
    /\ tReady' = 1
    /\ tPc' = "select"
    /\ UNCHANGED <<tState, tCheck, tDone, tCancelled, tExists, tChecked, tStatus,
                   tCredit, tSent, tLate, tServing, notU>>

\* run: the select takes <-ctx.Done(): clean up, return, done <- true
SelectDone ==
    /\ tPc = "select"
    /\ tCancelled
    /\ cleanup
    /\ tDone' = 1
    /\ tPc' = "done"
    /\ UNCHANGED <<tState, tReady, tCheck, tCancelled, tChecked, tStatus,
                   tCredit, tSent, tLate, tServing, notU>>

\* run: the select takes <-check (it may, even when the context is done)
SelectCheck ==
    /\ tPc = "select"
    /\ tCheck = 1
    /\ tCheck' = 0
    /\ tServing' = tLate
    /\ tLate' = FALSE
    /\ tPc' = "recheck"
    /\ UNCHANGED <<tState, tReady, tDone, tCancelled, tExists, tChecked, tStatus,
                   tCredit, tSent, notU>>

\* run: with a check received, look at the context again before serving it
Recheck ==
    /\ tPc = "recheck"
    /\ IF tCancelled
         THEN /\ cleanup
              /\ tDone' = 1
              /\ tPc' = "done"
         ELSE /\ tPc' = "update"
              /\ UNCHANGED <<tExists, tDone>>
    /\ UNCHANGED <<tState, tReady, tCheck, tCancelled, tChecked, tStatus,
                   tCredit, tSent, tLate, tServing, notU>>

\* run: serve the check
Update ==
    /\ tPc = "update"
    /\ updateTunnelStatus
    /\ tPc' = "decide"
    /\ UNCHANGED <<tState, tReady, tCheck, tDone, tCancelled,
                   tCredit, tSent, tLate, tServing, notU>>

\* run: a cluster that is not Running ends the manager, otherwise ready <- true
Decide ==
    /\ tPc = "decide"
    /\ IF tStatus # "Running"
         THEN /\ cleanup
              /\ tDone' = 1
              /\ tPc' = "done"
              /\ UNCHANGED tReady
         ELSE /\ tReady = 0
              /\ tReady' = 1
              /\ tPc' = "select"
              /\ UNCHANGED <<tExists, tDone>>
    /\ UNCHANGED <<tState, tCheck, tCancelled, tChecked, tStatus,
                   tCredit, tSent, tLate, tServing, notU>>

ManagerNext ==
    RunReady \/ SelectDone \/ SelectCheck \/ Recheck \/ Update \/ Decide

\* the requester: <-ready
TakeReady ==
    /\ tReady = 1
    /\ tCredit = 0
    /\ tReady' = 0
    /\ tCredit' = 1
    /\ UNCHANGED <<tState, tCheck, tDone, tCancelled, tExists, tChecked, tStatus,
                   tPc, tSent, tLate, tServing, notU>>

\* the requester: check <- true, in answer to a ready or after cancel()
SendCheck ==
    /\ tSent < MaxChecks
    /\ tCheck = 0
    /\ tCredit = 1 \/ tCancelled
    /\ tCheck' = 1
    /\ tLate' = tCancelled
    /\ tCredit' = 0
    /\ tSent' = tSent + 1
    /\ UNCHANGED <<tState, tReady, tDone, tCancelled, tExists, tChecked, tStatus,
                   tPc, tServing, notU>>

\* the requester: cancel()
Cancel ==
    /\ ~tCancelled
    /\ tCancelled' = TRUE
    /\ UNCHANGED <<tState, tReady, tCheck, tDone, tExists, tChecked, tStatus,
                   tPc, tCredit, tSent, tLate, tServing, notU>>

TunnelNext ==
    ManagerNext \/ TakeReady \/ SendCheck \/ Cancel

(***************************************************************************)
(* oci.PointToHostDockerDaemon                                             *)
(***************************************************************************)
DockerDaemonEnvs == {"DOCKER_HOST", "DOCKER_CERT_PATH", "DOCKER_TLS_VERIFY"}

\* a variable that os.LookupEnv does not find
Unset == "<unset>"

\* what a variable may hold: values as in the tests, the empty value, nothing
EnvValues == {"foo", "bar", "", Unset}

EnvQuiet ==
    /\ envDocker = [e \in DockerDaemonEnvs |-> Unset]
    /\ envExisting = [e \in DockerDaemonEnvs |-> Unset]
    /\ envBefore = envDocker
    /\ envRet = "none"

\* the environment the tests set up, with every mix of set and unset
EnvInit ==
    /\ envDocker \in [DockerDaemonEnvs -> EnvValues]
    /\ envExisting \in [DockerDaemonEnvs -> EnvValues]
    /\ envBefore = envDocker
    /\ envRet = "none"

\* a restore that leaves a variable alone when nothing was saved for it
Restore_KeepWhenUnset(docker, existing) ==
    [e \in DockerDaemonEnvs |->
        IF existing[e] = Unset THEN docker[e] ELSE existing[e]]

\* each DOCKER_ variable takes the saved value, or is unset when none is saved
Restore(docker, existing) ==
    [e \in DockerDaemonEnvs |-> existing[e]]

PointToHostDockerDaemon ==
    /\ envRet = "none"
    /\ envDocker' = Restore(envDocker, envExisting)
    /\ envRet' = "nil"
    /\ UNCHANGED <<envExisting, envBefore, notK>>

(***************************************************************************)
(* Bootstrapper.WaitForNode and Bootstrapper.client                        *)
(***************************************************************************)
Gates == {"apiserver", "system-pods", "default-sa", "apps-running",
          "node-conditions", "node-ready"}

\* WaitForNode holds unresolved merge conflicts; a build takes one side
Sides == {"HEAD", "theirs"}

\* the gates in the order of the code: on the HEAD side the node-ready gate
\* of the conflict is followed by the node-ready gate after the conflict
GateList(side) ==
    IF side = "HEAD"
    THEN <<"apiserver", "system-pods", "default-sa", "apps-running",
           "node-conditions", "node-ready", "node-ready">>
    ELSE <<"apiserver", "system-pods", "default-sa", "apps-running",
           "node-conditions", "node-ready">>

PressureKinds == {"ErrDiskPressure", "ErrMemoryPressure", "ErrPIDPressure",
                  "ErrNetworkNotReady"}

WaitErr(step, cause) == [step |-> step, cause |-> cause]

NoRet == WaitErr("none", "none")

NilRet == WaitErr("nil", "nil")

NoFail == [gate |-> "none", cause |-> "none"]

\* what the probes of a gate may return, already wrapped as WaitForNode wraps it
Outcomes(g) ==
    {NilRet} \cup
    CASE g = "apiserver" ->
           {WaitErr("wait for apiserver proc", "timeout"),
            WaitErr("wait for healthy API server", "timeout")}
      [] g = "system-pods" -> {WaitErr("waiting for system pods", "timeout")}
      [] g = "default-sa" ->
           {WaitErr("waiting for default service account", "timeout")}
      [] g = "apps-running" -> {WaitErr("waiting for apps_running", "timeout")}
      [] g = "node-conditions" ->
           {WaitErr("verifying node conditions", k) : k \in PressureKinds}
      [] OTHER -> {WaitErr("waiting for node to be ready", "timeout")}

\* kverify.ShouldWait: some component is selected
ShouldWait(vc) == vc # {}

WaitQuiet ==
    /\ wSide = "theirs"
    /\ wCfg = [cp |-> TRUE, vc |-> {}]
    /\ wPc = "idle"
    /\ wGate = 1
    /\ wLog = <<>>
    /\ wFailed = NoFail
    /\ wRet = NoRet
    /\ wAdvised = "none"
    /\ wWaits = 0
    /\ wCreated = 0
    /\ wLastClient = "none"

\* a bootstrapper fresh from NewBootstrapper, in a build of either side
WaitInit ==
    /\ wSide \in Sides
    /\ wCfg = [cp |-> TRUE, vc |-> {}]
    /\ wPc = "idle"
    /\ wGate = 1
    /\ wLog = <<>>
    /\ wFailed = NoFail
    /\ wRet = NoRet
    /\ wAdvised = "none"
    /\ wWaits = 0
    /\ wCreated = 0
    /\ wLastClient = "none"

\* Bootstrapper.client that builds a new client on every call
client_NoCache(ok) ==
    IF ok
    THEN k8sClient' = TRUE /\ wCreated' = wCreated + 1 /\ wLastClient' = "created"
    ELSE k8sClient' = FALSE /\ wLastClient' = "failed" /\ UNCHANGED wCreated

\* Bootstrapper.client: the cached client, or a new one, cached if it was made
client(ok) ==
    IF k8sClient
    THEN k8sClient' = TRUE /\ wLastClient' = "cached" /\ UNCHANGED wCreated
    ELSE IF ok
    THEN k8sClient' = TRUE /\ wCreated' = wCreated + 1 /\ wLastClient' = "created"
    ELSE k8sClient' = FALSE /\ wLastClient' = "failed" /\ UNCHANGED wCreated

\* every gate runs, selected or not
ShouldRun_Always(g) ==
    g \in Gates

\* cc.VerifyComponents[key]
ShouldRun(g) ==
    g \in wCfg.vc

\* the result of the node conditions probe is dropped
Failed_NodeConditionsIgnored(g, out) ==
    out # NilRet /\ g # "node-conditions"

\* if err := ...; err != nil
Failed(g, out) ==
    out # NilRet

\* adviseNodePressure prints advice for the condition the error carries
adviseNodePressure(cause) ==
    IF cause \in PressureKinds THEN cause ELSE "none"

\* WaitForNode up to the first gate: nothing to wait for on a node that is
\* not a control plane or when no component is selected
WaitCall(cp, vc) ==
    /\ wPc \in {"idle", "done"}
    /\ wWaits < MaxWaits
    /\ wWaits' = wWaits + 1
    /\ wCfg' = [cp |-> cp, vc |-> vc]
    /\ wGate' = 1
    /\ wLog' = <<>>
    /\ wFailed' = NoFail
    /\ wAdvised' = "none"
    /\ IF ~cp \/ ~ShouldWait(vc)
         THEN wRet' = NilRet /\ wPc' = "done"
         ELSE wRet' = NoRet /\ wPc' = "setup"
    /\ UNCHANGED <<wSide, wCreated, wLastClient, bvars, notY>>

\* cruntime.New and driver.ControlPaneEndpoint
WaitSetup ==
    /\ wPc = "setup"
    /\ \E runtimeOK, endpointOK \in BOOLEAN :
          IF ~runtimeOK
          THEN wRet' = WaitErr("create runtme-manager", "runtime") /\ wPc' = "done"
          ELSE IF ~endpointOK
          THEN wRet' = WaitErr("get control plane endpoint", "endpoint")
               /\ wPc' = "done"
          ELSE wRet' = wRet /\ wPc' = "gates"
    /\ UNCHANGED <<wSide, wCfg, wGate, wLog, wFailed, wAdvised, wWaits, wCreated,
                   wLastClient, bvars, notY>>

\* the next gate of the list: skipped when it is not selected, otherwise
\* k.client() and the probe; after the last gate WaitForNode returns nil
WaitGate ==
    /\ wPc = "gates"
    /\ IF wGate > Len(GateList(wSide))
         THEN /\ wRet' = NilRet
              /\ wPc' = "done"
              /\ UNCHANGED <<wGate, wLog, wFailed, wAdvised, wCreated, wLastClient,
                             k8sClient>>
         ELSE LET g == GateList(wSide)[wGate] IN
              IF ~ShouldRun(g)
              THEN /\ wGate' = wGate + 1
                   /\ UNCHANGED <<wRet, wPc, wLog, wFailed, wAdvised, wCreated,
                                  wLastClient, k8sClient>>
              ELSE \E ok \in BOOLEAN, out \in Outcomes(g) :
                   /\ client(ok)
                   /\ IF wLastClient' = "failed"
                        THEN /\ wRet' = WaitErr("get k8s client", "client")
                             /\ wPc' = "done"
                             /\ UNCHANGED <<wGate, wLog, wFailed, wAdvised>>
                        ELSE /\ wLog' = Append(wLog, g)
                             /\ wFailed' = IF out # NilRet
                                             THEN [gate |-> g, cause |-> out.cause]
                                             ELSE wFailed
                             /\ IF Failed(g, out)
                                  THEN /\ wAdvised' =
                                            IF wSide = "HEAD" /\ g = "node-conditions"
                                            THEN adviseNodePressure(out.cause)
                                            ELSE wAdvised
                                       /\ wRet' = out
                                       /\ wPc' = "done"
                                       /\ UNCHANGED wGate
                                  ELSE /\ wGate' = wGate + 1
                                       /\ UNCHANGED <<wRet, wPc, wAdvised>>
    /\ UNCHANGED <<wSide, wCfg, wWaits, cfg, pc, log, ret, restartRet, initRet,
                   deleteRet, needsResetRet, phase, tries, task, wg, notY>>

WaitNext ==
    \/ \E cp \in BOOLEAN, vc \in SUBSET Gates : WaitCall(cp, vc)
    \/ WaitSetup
    \/ WaitGate

(***************************************************************************)
(* Bootstrapper.Wait: the pods by layer                                    *)
(***************************************************************************)
Pod(name, key, value) == [name |-> name, key |-> key, value |-> value]

PodsByLayer ==
    <<Pod("apiserver", "component", "kube-apiserver"),
      Pod("proxy", "k8s-app", "kube-proxy"),
      Pod("etcd", "component", "etcd"),
      Pod("scheduler", "component", "kube-scheduler"),
      Pod("controller", "component", "kube-controller-manager"),
      Pod("dns", "k8s-app", "kube-dns")>>

PodNames == {PodsByLayer[i].name : i \in 1..Len(PodsByLayer)}

PodWaitQuiet ==
    /\ pdCni = FALSE
    /\ pdUp = PodNames
    /\ pdPc = "idle"
    /\ pdIdx = 1
    /\ pdLog = <<>>
    /\ pdRet = "none"

\* a cluster with or without CNI in which some of the pods come up
PodWaitInit ==
    /\ pdCni \in BOOLEAN
    /\ pdUp \in SUBSET PodNames
    /\ pdPc = "idle"
    /\ pdIdx = 1
    /\ pdLog = <<>>
    /\ pdRet = "none"

\* under CNI only the dns pod is left out
Skipped_DNSOnly(p) ==
    pdCni /\ p.name = "dns"

\* componentsOnly && p.key != "component"
Skipped(p) ==
    pdCni /\ p.key # "component"

\* Wait up to the loop: util.GetClient
WaitPodsStart(clientOK) ==
    /\ pdPc = "idle"
    /\ IF clientOK
         THEN pdPc' = "loop" /\ UNCHANGED pdRet
         ELSE pdPc' = "done" /\ pdRet' = "k8s client"
    /\ UNCHANGED <<pdCni, pdUp, pdIdx, pdLog, notP>>

\* one turn of the loop over PodsByLayer; after the last one Wait returns nil
WaitPod ==
    /\ pdPc = "loop"
    /\ IF pdIdx > Len(PodsByLayer)
         THEN /\ pdRet' = "nil"
              /\ pdPc' = "done"
              /\ UNCHANGED <<pdIdx, pdLog>>
         ELSE LET p == PodsByLayer[pdIdx] IN
              IF Skipped(p)
              THEN /\ pdIdx' = pdIdx + 1
                   /\ UNCHANGED <<pdLog, pdRet, pdPc>>
              ELSE /\ pdLog' = Append(pdLog, p.name)
                   /\ IF p.name \in pdUp
                        THEN /\ pdIdx' = pdIdx + 1
                             /\ UNCHANGED <<pdRet, pdPc>>
                        ELSE /\ pdRet' = "waiting for " \o p.key \o "=" \o p.value
                             /\ pdPc' = "done"
                             /\ UNCHANGED pdIdx
    /\ UNCHANGED <<pdCni, pdUp, notP>>

PodWaitNext ==
    \/ \E clientOK \in BOOLEAN : WaitPodsStart(clientOK)
    \/ WaitPod

(***************************************************************************)
(* minikube ssh                                                            *)
(***************************************************************************)
\* exit codes a remote command may end with
RemoteCodes == {0, 1, 2, 3, 127, 255}

SshInputs ==
    [clientOK : BOOLEAN, hostOK : BOOLEAN, permOK : BOOLEAN,
     driver : {"none", "virtualbox"}, remote : RemoteCodes]

SshQuiet ==
    /\ sshIn = [clientOK |-> TRUE, hostOK |-> TRUE, permOK |-> TRUE,
                driver |-> "virtualbox", remote |-> 0]
    /\ sshRan = FALSE
    /\ sshOut = ""
    /\ sshExit = -1

SshInit ==
    /\ sshIn \in SshInputs
    /\ sshRan = FALSE
    /\ sshOut = ""
    /\ sshExit = -1

\* cluster.CreateSSHShell: an error when the remote command ends with a
\* status that is not 0
CreateSSHShell(remote) ==
    IF remote = 0 THEN "nil" ELSE "exit status"

\* exit.WithError and exit.UsageT end the process with a status that is not 0
SshAbort(msg) ==
    /\ sshOut' = msg
    /\ sshRan' = FALSE
    /\ sshExit' \in RemoteCodes \ {0}

\* Run of sshCmd
SshRun ==
    /\ sshExit = -1
    /\ IF ~sshIn.clientOK THEN SshAbort("Error getting client")
       ELSE IF ~sshIn.hostOK THEN SshAbort("Error getting host")
       ELSE IF ~sshIn.permOK THEN SshAbort("Permission denied")
       ELSE IF sshIn.driver = "none"
       THEN SshAbort("'none' driver does not support 'minikube ssh' command")
       ELSE /\ sshRan' = TRUE
            /\ IF CreateSSHShell(sshIn.remote) # "nil"
                 THEN sshOut' = "ssh: exit status" /\ sshExit' = ExitFailure
                 ELSE sshOut' = "" /\ sshExit' = 0
    /\ UNCHANGED <<sshIn, notH>>

(***************************************************************************)
(* startKubeletIfRequired                                                  *)
(***************************************************************************)
\* what a file on the guest holds
Contents == {"absent", "v1", "v2"}

KubeletFiles == [svc : Contents, svcNew : Contents, conf : Contents, confNew : Contents]

\* what may go wrong with the two cp commands besides a missing source
CpFaults == {"none", "first", "second"}

NoKubeletCall ==
    [files |-> [svc |-> "v1", svcNew |-> "v1", conf |-> "v1", confNew |-> "v1"],
     running |-> TRUE, copied |-> {}, started |-> FALSE, err |-> "none"]

KubeletQuiet ==
    /\ kbRunning = TRUE
    /\ kbFiles = [svc |-> "v1", svcNew |-> "v1", conf |-> "v1", confNew |-> "v1"]
    /\ kbCalls = 0
    /\ kbFirst = "none"
    /\ kbLast = NoKubeletCall

\* a guest with any files, kubelet running or not
KubeletInit ==
    /\ kbRunning \in BOOLEAN
    /\ kbFiles \in KubeletFiles
    /\ kbCalls = 0
    /\ kbFirst = "none"
    /\ kbLast = NoKubeletCall

\* diff -u f f.new exits 0 when both exist and are equal
Same(a, b) == a # "absent" /\ a = b

\* a check that only asks whether kubelet is running
checkCmd_RunningOnly(running, f) ==
    running

\* pgrep kubelet && diff -u svc svc.new && diff -u conf conf.new
checkCmd(running, f) ==
    running /\ Same(f.svc, f.svcNew) /\ Same(f.conf, f.confNew)

\* sudo cp svc.new svc && sudo cp conf.new conf: the files afterwards, the
\* files copied, and whether the command failed
startCmd(f, fault) ==
    IF f.svcNew = "absent" \/ fault = "first"
    THEN [files |-> f, copied |-> {}, failed |-> TRUE]
    ELSE IF f.confNew = "absent" \/ fault = "second"
    THEN [files |-> [f EXCEPT !.svc = f.svcNew], copied |-> {"svc"}, failed |-> TRUE]
    ELSE [files |-> [f EXCEPT !.svc = f.svcNew, !.conf = f.confNew],
          copied |-> {"svc", "conf"}, failed |-> FALSE]

startKubeletIfRequired(fault, startOK) ==
    /\ kbCalls < MaxKubeletCalls
    /\ kbCalls' = kbCalls + 1
    /\ LET done(copied, started, err) ==
               /\ kbLast' = [files |-> kbFiles, running |-> kbRunning,
                             copied |-> copied, started |-> started, err |-> err]
               /\ kbFirst' = IF kbCalls = 0 THEN err ELSE kbFirst
       IN  IF checkCmd(kbRunning, kbFiles)
           THEN /\ done({}, FALSE, "nil")
                /\ UNCHANGED <<kbRunning, kbFiles>>
           ELSE LET r == startCmd(kbFiles, fault) IN
                /\ kbFiles' = r.files
                /\ IF r.failed
                     THEN /\ done(r.copied, FALSE, "starting kubelet")
                          /\ UNCHANGED kbRunning
                     ELSE /\ kbRunning' = startOK
                          /\ done(r.copied, TRUE, IF startOK THEN "nil" ELSE "start")
    /\ UNCHANGED notL

(***************************************************************************)
(* elevateKubeSystemPrivileges                                             *)
(***************************************************************************)
\* how `kubectl create clusterrolebinding minikube-rbac` ends: the binding
\* is created, the server answers that it already exists, or the command
\* fails otherwise (server not reachable, the 5 s of its context are over)
CreateOutcomes == {"created", "AlreadyExists", "fault"}

RbacQuiet ==
    /\ rbBinding = FALSE
    /\ rbSA = FALSE
    /\ rbLog = <<>>

\* a cluster with or without the binding and the service account
RbacInit ==
    /\ rbBinding \in BOOLEAN
    /\ rbSA \in BOOLEAN
    /\ rbLog = <<>>

\* k.c.RunCmd of the create command on the cluster
createBinding(fault) ==
    IF fault THEN "fault"
    ELSE IF rbBinding THEN "AlreadyExists" ELSE "created"

\* elevateKubeSystemPrivileges(cfg): the create command is run; when it
\* failed and its output holds "Error from server (AlreadyExists)" nil is
\* returned at once; otherwise, when cfg.VerifyComponents[default-sa] is
\* set, `kubectl get sa default` is polled for up to a minute and a
\* timeout is returned as "ensure sa was created"; otherwise nil
elevateKubeSystemPrivileges(verify, fault, saAppears) ==
    /\ Len(rbLog) < MaxRbacCalls
    /\ LET out == createBinding(fault)
           sa == rbSA \/ saAppears
           polled == out # "AlreadyExists" /\ verify
           r == IF out = "AlreadyExists" THEN "nil"
                ELSE IF verify /\ ~sa THEN "ensure sa was created"
                ELSE "nil"
       IN /\ rbBinding' = (rbBinding \/ out = "created")
          /\ rbSA' = sa
          /\ rbLog' = Append(rbLog, [verify |-> verify, create |-> out,
                                     saSeen |-> (polled /\ sa), ret |-> r])
    /\ UNCHANGED notA

RbacNext ==
    \E verify, fault, saAppears \in BOOLEAN :
        elevateKubeSystemPrivileges(verify, fault, saAppears)

(***************************************************************************)
(* Bootstrapper.client(ip, port) and the endpoint of the client it returns *)
(***************************************************************************)
IPs == {"192.168.49.2", "127.0.0.1"}

Ports == {8443, 32771}

\* fmt.Sprintf("https://%s", net.JoinHostPort(ip, strconv.Itoa(port)))
Endpoint(ip, port) == <<"https", ip, port>>

NoEndpoint == <<>>

\* what can fail in making a client
ClientFaults == {"none", "client config", "NewForConfig"}

ClientQuiet ==
    /\ kcTarget = NoEndpoint
    /\ kcLog = <<>>

\* NewBootstrapper: k8sClient is nil
ClientInit ==
    /\ kcTarget = NoEndpoint
    /\ kcLog = <<>>

\* client(ip, port): the cached client when there is one; otherwise the
\* ClientConfig of the context is read, its Host is set to the endpoint
\* and a client is made from it, which is cached when that succeeded
clientCall(ip, port, fault) ==
    /\ Len(kcLog) < MaxClientCalls
    /\ IF kcTarget # NoEndpoint
       THEN /\ kcLog' = Append(kcLog, [ip |-> ip, port |-> port,
                                       target |-> kcTarget, err |-> "nil"])
            /\ UNCHANGED kcTarget
       ELSE IF fault # "none"
       THEN /\ kcLog' = Append(kcLog, [ip |-> ip, port |-> port,
                                       target |-> NoEndpoint, err |-> fault])
            /\ UNCHANGED kcTarget
       ELSE /\ kcTarget' = Endpoint(ip, port)
            /\ kcLog' = Append(kcLog, [ip |-> ip, port |-> port,
                                       target |-> Endpoint(ip, port), err |-> "nil"])
    /\ UNCHANGED notF

ClientNext ==
    \E ip \in IPs, port \in Ports, fault \in ClientFaults : clientCall(ip, port, fault)

(***************************************************************************)
(* Cilium.GenerateCiliumYAML and removeAppArorProfile                      *)
(***************************************************************************)
\* c.cc.KubernetesConfig.KubernetesVersion: versions as <<major, minor,
\* patch>>, and a string that util.ParseKubernetesVersion cannot parse
KubernetesVersions == {<<1, 29, 9>>, <<1, 30, 0>>, <<1, 31, 2>>, <<>>}

\* semver's LT
LT(v, w) ==
    \/ v[1] < w[1]
    \/ v[1] = w[1] /\ v[2] < w[2]
    \/ v[1] = w[1] /\ v[2] = w[2] /\ v[3] < w[3]

\* `err == nil && k8sVersion.LT(semver.MustParse("1.30.0"))`
NeedsStrip(v) == v # <<>> /\ LT(v, <<1, 30, 0>>)

\* a manifest text: whether it holds the objects of cilium.yaml and
\* whether their appArmorProfile fields are there
Manifest(objects, appArmor) == [objects |-> objects, appArmor |-> appArmor]

\* cilium.yaml as it is embedded
Embedded == Manifest(TRUE, TRUE)

\* what can fail in a call: removeAppArorProfile (decoding, deleting,
\* encoding) or the execution of the template
CiliumFaults == {"none", "remove", "execute"}

CiliumQuiet ==
    /\ ciliumYaml = Embedded
    /\ cyLog = <<>>

\* the start of the process: `//go:embed cilium.yaml`
CiliumInit ==
    /\ ciliumYaml = Embedded
    /\ cyLog = <<>>

\* removeAppArorProfile(ciliumConfig): the text re-encoded without the
\* appArmorProfile fields, or "" and an error
removeAppArorProfile(ciliumConfig, fault) ==
    IF fault = "remove"
    THEN [text |-> Manifest(FALSE, FALSE), err |-> "remove"]
    ELSE [text |-> Manifest(ciliumConfig.objects, FALSE), err |-> "nil"]

\* GenerateCiliumYAML on a Cilium whose cluster config has the version v:
\* for a version before 1.30 the result of removeAppArorProfile is
\* assigned to ciliumYaml; the template parsed from ciliumYaml is then
\* executed with the pod CIDR
GenerateCiliumYAML(v, fault) ==
    /\ Len(cyLog) < MaxCiliumCalls
    /\ LET removed == removeAppArorProfile(ciliumYaml, fault)
           yaml == IF NeedsStrip(v) THEN removed.text ELSE ciliumYaml
       IN /\ ciliumYaml' = yaml
          /\ cyLog' = Append(cyLog,
                IF NeedsStrip(v) /\ removed.err # "nil"
                THEN [version |-> v, err |-> removed.err, out |-> Manifest(FALSE, FALSE)]
                ELSE IF fault = "execute"
                THEN [version |-> v, err |-> "execute", out |-> Manifest(FALSE, FALSE)]
                ELSE [version |-> v, err |-> "nil", out |-> yaml])
    /\ UNCHANGED notM

CiliumNext ==
    \E v \in KubernetesVersions, fault \in CiliumFaults : GenerateCiliumYAML(v, fault)

(***************************************************************************)
(* LocalClient.NewHost and LocalClient.Load                                *)
(***************************************************************************)
HostOps == {"Create", "NewHost", "Load"}

HostAPIQuiet ==
    /\ hostOp = [p \in Procs |-> "none"]
    /\ hostRefused = {}

\* no call made yet
HostAPIInit ==
    /\ hostOp = [p \in Procs |-> "none"]
    /\ hostRefused = {}

\* the call op of process p returns r after having made the calls cs
HostReturn(p, op, r, cs) ==
    /\ hostOp' = [hostOp EXCEPT ![p] = op]
    /\ cpc' = [cpc EXCEPT ![p] = "done"]
    /\ cret' = [cret EXCEPT ![p] = r]
    /\ ccalls' = [ccalls EXCEPT ![p] = cs]

\* NewHost(drvName, cruntimeName, rawDriver): the registry lookup; the
\* legacy client for a driver without Init; else the driver is made by
\* def.Init(), filled from rawDriver and asked for its machine name and
\* driver name
NewHost(p) ==
    /\ cpc[p] = "start"
    /\ CASE kind[p] = "missing" ->
              HostReturn(p, "NewHost", "driver does not exist", <<>>)
         [] kind[p] = "legacy" ->
              \E ok \in BOOLEAN :
                 HostReturn(p, "NewHost", IF ok THEN "nil" ELSE "legacy",
                            <<E("legacyClient.NewHost", ok)>>)
         [] OTHER ->
              \E ok \in BOOLEAN :
                 IF ok
                 THEN HostReturn(p, "NewHost", "nil",
                                 <<E("def.Init", TRUE), E("json.Unmarshal", TRUE),
                                   E("GetMachineName", TRUE), E("DriverName", TRUE)>>)
                 ELSE HostReturn(p, "NewHost", "Error getting driver",
                                 <<E("def.Init", TRUE), E("json.Unmarshal", FALSE)>>)
    /\ UNCHANGED <<kind, csteps, flock, saved, hostRefused, notZ>>

\* Load without the test of def.Empty()
Load_NoRegistryCheck(p) ==
    /\ cpc[p] = "start"
    /\ \E loaded \in BOOLEAN :
          IF ~loaded
          THEN HostReturn(p, "Load", "filestore", <<E("Filestore.Load", FALSE)>>)
          ELSE CASE kind[p] = "legacy" ->
                    \E ok \in BOOLEAN :
                       HostReturn(p, "Load", IF ok THEN "nil" ELSE "legacy",
                                  <<E("Filestore.Load", TRUE), E("legacyClient.Load", ok)>>)
               [] OTHER ->
                    \E ok \in BOOLEAN :
                       HostReturn(p, "Load", IF ok THEN "nil" ELSE "json.Unmarshal",
                                  <<E("Filestore.Load", TRUE), E("def.Init", TRUE),
                                    E("json.Unmarshal", ok)>>)
    /\ UNCHANGED <<kind, csteps, flock, saved, hostRefused, notZ>>

\* Load(name): the host is read from the filestore; then the registry
\* lookup on its driver name; the legacy client for a driver without
\* Init; else the driver is made by def.Init() and filled from h.RawDriver
Load(p) ==
    /\ cpc[p] = "start"
    /\ \E loaded \in BOOLEAN :
          IF ~loaded
          THEN HostReturn(p, "Load", "filestore", <<E("Filestore.Load", FALSE)>>)
          ELSE CASE kind[p] = "missing" ->
                    HostReturn(p, "Load", "driver does not exist",
                               <<E("Filestore.Load", TRUE)>>)
               [] kind[p] = "legacy" ->
                    \E ok \in BOOLEAN :
                       HostReturn(p, "Load", IF ok THEN "nil" ELSE "legacy",
                                  <<E("Filestore.Load", TRUE), E("legacyClient.Load", ok)>>)
               [] OTHER ->
                    \E ok \in BOOLEAN :
                       HostReturn(p, "Load", IF ok THEN "nil" ELSE "json.Unmarshal",
                                  <<E("Filestore.Load", TRUE), E("def.Init", TRUE),
                                    E("json.Unmarshal", ok)>>)
    /\ UNCHANGED <<kind, csteps, flock, saved, hostRefused, notZ>>

\* the call process p has finished: Create unless hostOp says otherwise
OpOf(p) == IF hostOp[p] = "none" THEN "Create" ELSE hostOp[p]

\* process p, whose call was refused with "driver does not exist", goes on
\* to its next call on the same driver name; the refused call is remembered
NextCall(p) ==
    /\ cpc[p] = "done"
    /\ cret[p] = "driver does not exist"
    /\ hostRefused' = hostRefused \cup {OpOf(p)}
    /\ hostOp' = [hostOp EXCEPT ![p] = "none"]
    /\ cpc' = [cpc EXCEPT ![p] = "start"]
    /\ cret' = [cret EXCEPT ![p] = "running"]
    /\ ccalls' = [ccalls EXCEPT ![p] = <<>>]
    /\ UNCHANGED <<kind, csteps, flock, saved, notZ>>

HostAPINext ==
    \/ CreateNext
    \/ \E p \in Procs : NewHost(p) \/ Load(p) \/ NextCall(p)

\* the subsystems added later, each at rest unless it is named in active
LaterInit(active) ==
    /\ IF "status" \in active THEN StatusInit ELSE StatusQuiet
    /\ IF "tunnel" \in active THEN TunnelInit ELSE TunnelQuiet
    /\ IF "env" \in active THEN EnvInit ELSE EnvQuiet
    /\ IF "wait" \in active THEN WaitInit ELSE WaitQuiet
    /\ IF "pods" \in active THEN PodWaitInit ELSE PodWaitQuiet
    /\ IF "ssh" \in active THEN SshInit ELSE SshQuiet
    /\ IF "kubelet" \in active THEN KubeletInit ELSE KubeletQuiet
    /\ IF "rbac" \in active THEN RbacInit ELSE RbacQuiet
    /\ IF "client" \in active THEN ClientInit ELSE ClientQuiet
    /\ IF "cilium" \in active THEN CiliumInit ELSE CiliumQuiet
    /\ IF "hostapi" \in active THEN HostAPIInit ELSE HostAPIQuiet

\* the subsystems added after the first five, at rest
RestQuiet == DeleteQuiet /\ NodeInit /\ StoreInit /\ LaterInit({})

(***************************************************************************)
(* Specifications                                                          *)
(***************************************************************************)
BootstrapQuiet ==
    /\ BootstrapInit
    /\ cfg = [versionOK |-> TRUE, runtimeOK |-> TRUE, hasCP |-> TRUE,
              kic |-> FALSE, docker |-> TRUE]
    /\ k8sClient = FALSE

\* StartCluster on one bootstrapper
InitSpecBootstrap ==
    BootstrapInit /\ NeedsResetQuiet /\ CreateQuiet /\ SerialInit /\ RunnerInit
    /\ RestQuiet

SpecBootstrap == InitSpecBootstrap /\ [][BootstrapNext]_vars

\* needsReset applied to every combination of probe outcomes
InitSpecNeedsReset ==
    NeedsResetInit /\ BootstrapQuiet /\ CreateQuiet /\ SerialInit /\ RunnerInit
    /\ RestQuiet

SpecNeedsReset == InitSpecNeedsReset /\ [][EvalNeedsReset]_vars

\* NProcs processes, each in one call of LocalClient.Create
InitSpecCreate ==
    CreateInit /\ BootstrapQuiet /\ NeedsResetQuiet /\ SerialInit /\ RunnerInit
    /\ RestQuiet

SpecCreate == InitSpecCreate /\ [][CreateNext]_vars

\* NThreads goroutines calling Driver methods through SerialDriver values
InitSpecSerial ==
    SerialInit /\ BootstrapQuiet /\ NeedsResetQuiet /\ CreateQuiet /\ RunnerInit
    /\ RestQuiet

SpecSerial == InitSpecSerial /\ [][SerialNext]_vars

\* one caller of StartCmd and WaitCmd on one SSHRunner
InitSpecRunner ==
    RunnerInit /\ BootstrapQuiet /\ NeedsResetQuiet /\ CreateQuiet /\ SerialInit
    /\ RestQuiet

SpecRunner == InitSpecRunner /\ [][RunnerNext]_vars

\* the same, where a pump that can finish does (the remote process ends
\* and its streams close) and a WaitCmd that can return does
SpecRunnerFair ==
    /\ InitSpecRunner
    /\ [][RunnerNext]_vars
    /\ WF_vars(WaitCmdReturn)
    /\ \A k \in 1..MaxCmds : WF_vars(PumpDone(k))

\* runs of `minikube delete` on one profile, from any state of the profile
InitSpecDelete ==
    DeleteInit /\ BootstrapQuiet /\ NeedsResetQuiet /\ CreateQuiet /\ SerialInit
    /\ RunnerInit /\ NodeInit /\ StoreInit /\ LaterInit({})

SpecDelete == InitSpecDelete /\ [][DeleteNext]_vars

\* Add and Delete applied to a cluster config with one control-plane node
InitSpecNode ==
    NodeInit /\ BootstrapQuiet /\ NeedsResetQuiet /\ CreateQuiet /\ SerialInit
    /\ RunnerInit /\ DeleteQuiet /\ StoreInit /\ LaterInit({})

SpecNode == InitSpecNode /\ [][NodeNext]_vars

\* calls on one FakeStore, with its error fields set between them
InitSpecStore ==
    StoreInit /\ BootstrapQuiet /\ NeedsResetQuiet /\ CreateQuiet /\ SerialInit
    /\ RunnerInit /\ DeleteQuiet /\ NodeInit /\ LaterInit({})

SpecStore == InitSpecStore /\ [][StoreNext]_vars

\* the first eight subsystems at rest
BaseQuiet ==
    /\ BootstrapQuiet /\ NeedsResetQuiet /\ CreateQuiet /\ SerialInit /\ RunnerInit
    /\ DeleteQuiet /\ NodeInit /\ StoreInit

\* legacyExitCode applied to every combination of component states
InitSpecStatus == BaseQuiet /\ LaterInit({"status"})

SpecStatus == InitSpecStatus /\ [][StatusExit]_vars

\* one tunnel manager and its requester; the manager's goroutine keeps running
InitSpecTunnel == BaseQuiet /\ LaterInit({"tunnel"})

SpecTunnel == InitSpecTunnel /\ [][TunnelNext]_vars /\ WF_vars(ManagerNext)

\* PointToHostDockerDaemon called in every environment
InitSpecEnv == BaseQuiet /\ LaterInit({"env"})

SpecEnv == InitSpecEnv /\ [][PointToHostDockerDaemon]_vars

\* WaitForNode called on one bootstrapper, with every selection of gates
InitSpecWait == BaseQuiet /\ LaterInit({"wait"})

SpecWait == InitSpecWait /\ [][WaitNext]_vars

\* Wait called once in every cluster
InitSpecPodWait == BaseQuiet /\ LaterInit({"pods"})

SpecPodWait == InitSpecPodWait /\ [][PodWaitNext]_vars

\* minikube ssh run once for every finding and every remote exit code
InitSpecSsh == BaseQuiet /\ LaterInit({"ssh"})

SpecSsh == InitSpecSsh /\ [][SshRun]_vars

\* startKubeletIfRequired called on every guest, up to MaxKubeletCalls times
InitSpecKubelet == BaseQuiet /\ LaterInit({"kubelet"})

KubeletNext ==
    \E fault \in CpFaults, startOK \in BOOLEAN : startKubeletIfRequired(fault, startOK)

SpecKubelet == InitSpecKubelet /\ [][KubeletNext]_vars

\* elevateKubeSystemPrivileges called on every cluster, up to MaxRbacCalls times
InitSpecRbac == BaseQuiet /\ LaterInit({"rbac"})

SpecRbac == InitSpecRbac /\ [][RbacNext]_vars

\* client(ip, port) called up to MaxClientCalls times on one bootstrapper
InitSpecClient == BaseQuiet /\ LaterInit({"client"})

SpecClient == InitSpecClient /\ [][ClientNext]_vars

\* GenerateCiliumYAML called up to MaxCiliumCalls times in one process
InitSpecCilium == BaseQuiet /\ LaterInit({"cilium"})

SpecCilium == InitSpecCilium /\ [][CiliumNext]_vars

\* NProcs processes, each making calls of Create, NewHost and Load one
\* after the other on its driver name
InitSpecHostAPI ==
    CreateInit /\ BootstrapQuiet /\ NeedsResetQuiet /\ SerialInit /\ RunnerInit
    /\ RestQuiet

SpecHostAPI == InitSpecHostAPI /\ [][HostAPINext]_vars

(***************************************************************************)
(* Properties of StartCluster                                              *)
(***************************************************************************)
\* positions of the log where c was issued
At(c) == {i \in DOMAIN log : log[i].c = c}

Issued(c) == At(c) # {}

IsPhase(e) == \E i \in DOMAIN cmds : cmds[i] = e.c

\* the kubeadm phase commands issued, in order
PhaseLog == SelectSeq(log, IsPhase)

Waits == {"WaitForAPIServerProcess", "WaitForHealthyAPIServer", "WaitForSystemPods"}

\* C1: kubeadm init is attempted at most twice (as a call of init and as a
\* command); between two attempts the first has failed and DeleteCluster has
\* run; the error of the second attempt is what StartCluster returns, and
\* StartCluster has ended with it.
C1_InitAtMostTwice ==
    /\ Cardinality(At("init")) <= 2
    /\ Cardinality(At("kubeadm init")) <= 2
    /\ \A c \in {"init", "kubeadm init"} :
          \A i, j \in At(c) :
             i < j => /\ Len(initRet) >= 1
                      /\ initRet[1] # "nil"
                      /\ \E k \in At("DeleteCluster") : i < k /\ k < j
                      /\ ~log[i].ok \/ c = "init"
    /\ Len(initRet) <= 2
    /\ (Len(initRet) = 2 /\ initRet[2] # "nil") => (pc = "done" /\ ret = initRet[2])

\* a second kubeadm init command was run and failed too
C1_Witness ==
    /\ Cardinality(At("kubeadm init")) = 2
    /\ Len(initRet) = 2
    /\ initRet[2] = "run"
    /\ ret = "run"

C3_NoResetNoCommands ==
    needsResetRet = "false" =>
       /\ restartRet = "nil"
       /\ PhaseLog = <<>>
       /\ \A c \in {"phase addon all", "kubeadm init", "clearStaleConfigs", "cp"} :
             ~Issued(c)

C3_Witness ==
    /\ needsResetRet = "false"
    /\ pc = "done"
    /\ Issued("needsReset")

\* C5: the phases issued are a prefix of certs, kubeconfig, control-plane,
\* etcd; each but the last issued has succeeded; after a failed phase no
\* phase, health wait or addon phase is issued and restartCluster has
\* returned the error wrapped as "run".
C5_PhasesInOrder ==
    /\ Len(PhaseLog) <= Len(cmds)
    /\ \A i \in DOMAIN PhaseLog : PhaseLog[i].c = cmds[i]
    /\ \A i \in DOMAIN PhaseLog : i < Len(PhaseLog) => PhaseLog[i].ok
    /\ \A i \in DOMAIN log :
          (IsPhase(log[i]) /\ ~log[i].ok) =>
             /\ restartRet = "run"
             /\ \A j \in DOMAIN log :
                   j > i => ~IsPhase(log[j]) /\ log[j].c \notin Waits
                            /\ log[j].c # "phase addon all"
    /\ \A w \in Waits \cup {"phase addon all"} :
          Issued(w) => Len(PhaseLog) = Len(cmds) /\ PhaseLog[Len(cmds)].ok

\* the third phase failed after two that succeeded
C5_Witness ==
    /\ Len(PhaseLog) = 3
    /\ ~PhaseLog[3].ok
    /\ restartRet = "run"
    /\ pc = "done"

\* the goroutines of init that have not called wg.Done()
Unfinished ==
    (IF task.rbac = "started" \/ task.overlay = "started" THEN {"rbac"} ELSE {})
    \cup (IF task.labels = "started" THEN {"labels"} ELSE {})
    \cup (IF task.limits = "started" THEN {"limits"} ELSE {})

Finished(t) == t \in {"ok", "failed"}

\* C6: after a successful kubeadm init command the three goroutines are
\* started (the wait group counts those still running); init returns only
\* when all three have finished, each having run whether or not another
\* failed, and it returns nil whatever their results.
C6_ForkJoin ==
    /\ pc = "in_wait" => wg = Cardinality(Unfinished)
    /\ (\E i \in At("kubeadm init") : log[i].ok) =>
          /\ pc \in {"in_wait", "done"}
          /\ pc = "done" =>
                /\ ret = "nil"
                /\ initRet[Len(initRet)] = "nil"
                /\ Finished(task.rbac) /\ Finished(task.labels) /\ Finished(task.limits)
                /\ NeedsOverlay => Finished(task.overlay)
    /\ (Len(initRet) >= 1 /\ initRet[Len(initRet)] = "nil") =>
          \E i \in At("kubeadm init") : log[i].ok

\* init has returned nil although the RBAC task failed, and the two other
\* tasks ran to their end
C6_Witness ==
    /\ pc = "done"
    /\ ret = "nil"
    /\ task.rbac = "failed"
    /\ task.labels = "ok"
    /\ task.limits = "failed"

(***************************************************************************)
(* Properties of needsReset                                                *)
(***************************************************************************)
\* C4: needsReset returns true exactly when the diff reports a difference,
\* or the apiserver status probe errors or is not Running, or
\* ExpectAppsRunning fails, or the apiserver version differs, or the node
\* check reports a condition; false only when all five checks pass.
C4_NeedsResetIff ==
    nrResult # "none" =>
       ((nrResult = "true") <=>
           \/ probe.diffErr
           \/ probe.statusErr \/ probe.st # "Running"
           \/ probe.appsErr
           \/ probe.versionErr
           \/ probe.nodeErr)

\* only the last check, the node conditions, fails
C4_Witness ==
    /\ nrResult = "true"
    /\ probe = [NoProbe EXCEPT !.nodeErr = TRUE]

(***************************************************************************)
(* Properties of LocalClient.Create                                        *)
(***************************************************************************)
\* C7: the steps a Create call has run are, in this order, a prefix of
\* bootstrapping certificates, precreate, saving, creating, waiting,
\* provisioning; every step but the last one run has succeeded; when the
\* last one run failed Create has returned the error named after it and
\* runs nothing more; Create returns nil only after all six succeeded.
C7_StepsInOrder ==
    \A p \in Procs :
       LET st == csteps[p] IN
       /\ Len(st) <= Len(StepNames)
       /\ \A i \in DOMAIN st : st[i].c = StepNames[i]
       /\ \A i \in DOMAIN st : i < Len(st) => st[i].ok
       /\ (st # <<>> /\ ~st[Len(st)].ok) =>
             (cpc[p] = "done" /\ cret[p] = StepNames[Len(st)])
       /\ cret[p] \in {StepNames[i] : i \in DOMAIN StepNames} =>
             (st # <<>> /\ ~st[Len(st)].ok /\ cret[p] = st[Len(st)].c)
       /\ (cret[p] = "nil" /\ kind[p] # "legacy") =>
             (Len(st) = Len(StepNames) /\ \A i \in DOMAIN st : st[i].ok)

\* a Create whose fourth step, creating, failed
C7_Witness ==
    \E p \in Procs :
       /\ Len(csteps[p]) = 4
       /\ cret[p] = "creating"
       /\ cpc[p] = "done"
       /\ \E i \in DOMAIN ccalls[p] : ccalls[p][i] = E("CreateMachine", FALSE)

\* the calls of process p of c
CallsOf(p, c) == {i \in DOMAIN ccalls[p] : ccalls[p][i].c = c}

\* C8: at most one process is inside cert.BootstrapCertificates; the lock
\* is held by a process exactly while it is inside the step, so it is free
\* again once the step has ended with success or with an error; a process
\* whose LockWithTimeout failed has failed the step and has not called
\* BootstrapCertificates.
C8_CertLockExclusive ==
    /\ Cardinality({p \in Procs : cpc[p] = "cert"}) <= 1
    /\ \A p \in Procs : (flock = p) <=> (cpc[p] = "cert")
    /\ flock \in Procs \cup {0}
    /\ \A p \in Procs :
          /\ CallsOf(p, "BootstrapCertificates") # {} =>
                \E i \in CallsOf(p, "LockWithTimeout") :
                   ccalls[p][i].ok /\ i < Len(ccalls[p])
                   /\ ccalls[p][i + 1].c = "BootstrapCertificates"
          /\ (\E i \in CallsOf(p, "LockWithTimeout") : ~ccalls[p][i].ok) =>
                /\ CallsOf(p, "BootstrapCertificates") = {}
                /\ cret[p] = "bootstrapping certificates"

\* one process holds the lock and is generating certificates while another
\* has failed to take the lock and returned without generating any
C8_Witness ==
    \E p, q \in Procs :
       /\ p # q
       /\ cpc[p] = "cert"
       /\ ccalls[q] = <<E("LockWithTimeout", FALSE)>>
       /\ cret[q] = "bootstrapping certificates"

\* C16 as stated: for a bare-metal driver Create calls neither
\* CreateMachine nor the wait for state Running.
C16_BareMetalSkipsCreate ==
    \A p \in Procs :
       BareMetal(kind[p]) =>
          /\ CallsOf(p, "CreateMachine") = {}
          /\ CallsOf(p, "WaitFor") = {}

\* C16, amended: for a bare-metal driver Create never waits for state
\* Running (its waiting step succeeds at once), but it does call the
\* driver's CreateMachine, after saving the host and before provisioning.
C16_BareMetalSkipsWait ==
    \A p \in Procs :
       BareMetal(kind[p]) =>
          /\ CallsOf(p, "WaitFor") = {}
          /\ Len(csteps[p]) >= 5 => csteps[p][5] = E("waiting", TRUE)
          /\ \A i \in CallsOf(p, "provisionMachine") :
                \E j \in CallsOf(p, "CreateMachine"), k \in CallsOf(p, "Save") :
                   k < j /\ j < i /\ ccalls[p][j].ok

\* Create has returned nil for a bare-metal driver, having called
\* CreateMachine and provisioned without waiting
C16_Witness ==
    \E p \in Procs :
       /\ BareMetal(kind[p])
       /\ cret[p] = "nil"
       /\ CallsOf(p, "CreateMachine") # {}
       /\ CallsOf(p, "provisionMachine") # {}
       /\ CallsOf(p, "WaitFor") = {}

(***************************************************************************)
(* Properties of SerialDriver                                              *)
(***************************************************************************)
\* goroutines inside a method of a wrapped driver
Inside == {t \in Threads : dpc[t] = "inner"}

\* C9: no two calls into wrapped drivers run at the same time, whatever
\* the methods called (GetRunner included), and the lock is free when no
\* call is in progress.
C9_AllCallsSerialized ==
    /\ Cardinality(Inside) <= 1
    /\ (\A t \in Threads : dpc[t] = "idle") => stdLock = 0

(***************************************************************************)
(* Properties of SSHRunner                                                 *)
(***************************************************************************)
StartCmdStep == \E stdin \in BOOLEAN : StartCmd(stdin)

WaitCmdCallStep == \E k \in 1..MaxCmds : WaitCmdCall(k)

\* C10: at most one started command is outstanding, and its session is
\* the one in s.S; a StartCmd made while one is outstanding returns an
\* error and opens no session; a WaitCmd made with no started command
\* never returns success; when WaitCmd returns, s.S is nil and nothing is
\* outstanding, and a StartCmd made with s.S nil is not refused as busy.
C10_OneOutstanding ==
    /\ [](Cardinality(outstanding) <= 1 /\ outstanding \subseteq {rS} /\ rS <= nSess)
    /\ [][(StartCmdStep /\ outstanding # {}) =>
             (rres'.err # "nil" /\ nSess' = nSess /\ rS' = rS
              /\ outstanding' = outstanding)]_vars
    /\ [][(WaitCmdCallStep /\ rS = 0) =>
             (rres'.op = "WaitCmd" /\ rres'.err # "nil" /\ rpc' = "idle")]_vars
    /\ [][WaitCmdReturn =>
             /\ rS' = 0 /\ outstanding' = {} /\ rpc' = "idle"
             /\ (outstanding = {} => rres'.err # "nil")]_vars
    /\ [][(StartCmdStep /\ rS = 0) => rres'.err # "busy"]_vars

\* a second StartCmd has been refused while the first command is outstanding
C10_Witness ==
    /\ outstanding # {}
    /\ rres = [op |-> "StartCmd", err |-> "busy"]
    /\ nSess = 1

(***************************************************************************)
(* Properties of SSHRunner.RunCmd                                          *)
(***************************************************************************)
\* C11: whenever RunCmd or WaitCmd has returned a RunResult, its ExitCode
\* is 0 if and only if the error returned with it is nil.
C11_ExitCodeIffNil ==
    (rres.op \in {"RunCmd", "WaitCmd"} /\ rr.has) =>
        (rr.ExitCode = 0 <=> rres.err = "nil")

\* C12: when RunCmd or WaitCmd returns the result of a command whose
\* pumps were started, both pumps have drained their stream, whether the
\* command succeeded or failed.
C12_PumpsJoined ==
    (rres.op \in {"RunCmd", "WaitCmd"} /\ rr.has /\ rr.teed) => rr.pumpsLeft = 0

\* RunCmd has returned the error of a remote command that exited non-zero,
\* with both streams drained
C12_Witness ==
    /\ rres = [op |-> "RunCmd", err |-> "*ssh.ExitError"]
    /\ rr.teed
    /\ rr.pumpsLeft = 0
    /\ rpc = "idle"

\* C13: in one RunCmd call the remote command is executed at most once;
\* an attempt that fails on NewSession leaves s.C nil and the attempt after
\* it dials a new client; when RunCmd returns the session error the
\* command has not been executed.
C13_RunAtMostOnce ==
    /\ xexec <= 1
    /\ \A i \in 1..Len(xlog) :
          xlog[i].out = "session" =>
             IF i < Len(xlog) THEN xlog[i + 1].dialed
             ELSE rpc = "session" => ~rC
    /\ (rpc = "idle" /\ rres = [op |-> "RunCmd", err |-> "NewSession"]) =>
          xexec = 0

\* a RunCmd whose first attempt failed on NewSession with the cached client,
\* whose second attempt dialed again, and which then ran the command once
C13_Witness ==
    /\ rpc = "run"
    /\ xerr # "none"
    /\ Len(xlog) >= 2
    /\ ~xlog[1].dialed
    /\ xlog[1].out = "session"
    /\ xlog[2].dialed
    /\ xlog[Len(xlog)].out = "ok"
    /\ xexec = 1

(***************************************************************************)
(* Properties of minikube delete                                           *)
(***************************************************************************)
\* the last run got no positional argument and met no fault
CleanRun == delRuns > 0 /\ delLast.faults = {} /\ ~("usage: minikube delete" \in
                {delLast.out[i] : i \in DOMAIN delLast.out})

Said(msg) == \E i \in DOMAIN delLast.out : delLast.out[i] = msg

\* C14: a delete that finds the host or the profile directory (or both)
\* already removed exits with code 0 and leaves neither; so a delete after
\* a delete succeeds.
C14_DeleteIdempotent ==
    (CleanRun /\ (~delLast.host \/ ~delLast.profile)) =>
        /\ delLast.exit = 0
        /\ ~delHost /\ ~delProfile /\ ~delCtx

\* a second delete has succeeded on a profile the first had fully removed
C14_Witness ==
    /\ delRuns = 2
    /\ CleanRun
    /\ ~delLast.host /\ ~delLast.profile
    /\ delLast.exit = 0

\* C15: a delete of a profile that was never created exits with code 0,
\* says that the profile does not exist and does not say that the cluster
\* has been deleted.
C15_NeverCreated ==
    (CleanRun /\ delRuns = 1 /\ ~delLast.host /\ ~delLast.profile) =>
        /\ delLast.exit = 0
        /\ Said("profile does not exist")
        /\ ~Said("cluster has been deleted")

(***************************************************************************)
(* Properties of node.Add and node.Delete                                  *)
(***************************************************************************)
ControlPlanes(ns) == {i \in DOMAIN ns : ns[i].ControlPlane}

\* C17: after any sequence of Add and Delete calls on a config that starts
\* with one control-plane node, cc.Nodes holds exactly one node with
\* ControlPlane = true.
C17_OneControlPlane == Cardinality(ControlPlanes(nodes)) = 1

(***************************************************************************)
(* Properties of FakeStore                                                 *)
(***************************************************************************)
SaveStep == \E name \in StoreNames, rev \in HostRevs : StoreSave(Host(name, rev))

\* the names saved and not removed since
Stored == {n \in StoreNames : sGhost[n].st = "saved"}

\* C18: a Save that returns an error leaves the stored hosts as they were,
\* and a call of an operation whose error field is set returns that error.
C18_FailedSaveKeepsHosts ==
    /\ [](sLast.op \in StoreOps =>
            (sErrs[sLast.op] # "nil" => sLast.err = sErrs[sLast.op]))
    /\ [][(SaveStep /\ sLast'.err # "nil") => sHosts' = sHosts]_vars

\* a Save of a new host has failed with the configured error on a store
\* that holds another host
C18_Witness ==
    /\ sLast.op = "Save"
    /\ sLast.err = "error A"
    /\ sLast.name \notin DOMAIN sHosts
    /\ DOMAIN sHosts # {}

\* C19: a Remove with no error configured succeeds whether or not the name
\* is stored, leaves the store without that name and the other hosts as
\* they were.
C19_RemoveIdempotent ==
    /\ []((sLast.op = "Remove" /\ sErrs["Remove"] = "nil") =>
            (sLast.err = "nil" /\ sLast.name \notin DOMAIN sHosts))
    /\ [][\A name \in StoreNames :
            (StoreRemove(name) /\ sErrs["Remove"] = "nil") =>
               /\ DOMAIN sHosts' = DOMAIN sHosts \ {name}
               /\ \A n \in DOMAIN sHosts' : sHosts'[n] = sHosts[n]]_vars

\* a second Remove of a name has succeeded after the first removed its host
C19_Witness ==
    /\ sLast.op = "Remove"
    /\ sLast.err = "nil"
    /\ ~sLast.had
    /\ sGhost[sLast.name].st = "removed"

\* C20: Exists is true, and Load returns the last saved host, for exactly
\* the names saved and not removed since; Load of another name returns an
\* error and a nil host; List returns exactly those names.
C20_StoreReflectsSaves ==
    /\ (sLast.op = "Exists" /\ sLast.err = "nil") =>
          (sLast.ok <=> sLast.name \in Stored)
    /\ (sLast.op = "Load" /\ sErrs["Load"] = "nil") =>
          IF sLast.name \in Stored
          THEN sLast.err = "nil" /\ sLast.host = sGhost[sLast.name].host
          ELSE sLast.err # "nil" /\ sLast.host = NilHost
    /\ (sLast.op = "List" /\ sLast.err = "nil") => sLast.names = Stored

\* Load has returned a saved host while another name has been removed
C20_Witness ==
    /\ sLast.op = "Load"
    /\ sLast.err = "nil"
    /\ sLast.host = Host("my-host", 2)
    /\ sGhost["my-host-2"].st = "removed"

(***************************************************************************)
(* Properties of minikube status                                           *)
(***************************************************************************)
\* C21: the exit code is 0 when host, kubelet and apiserver are Running and
\* the kubeconfig is Configured, 2 when the apiserver is Paused (on a
\* running host), and 7 when the host is Stopped or Nonexistent.
C21_StatusExitCode ==
    lsExit # -1 =>
       /\ StatusOK(lsStatus) => lsExit = 0
       /\ (lsStatus.Host = "Running" /\ lsStatus.APIServer = "Paused") => lsExit = 2
       /\ lsStatus.Host \in {"Stopped", "Nonexistent"} => lsExit = 7

\* the exit code 2 has been computed for a paused cluster
C21_Witness ==
    /\ lsExit = 2
    /\ lsStatus = LegacyStatus("Running", "Stopped", "Paused", "Configured")

C24_DockerEnvRestored ==
    envRet = "nil" =>
        \A e \in DockerDaemonEnvs :
            /\ envExisting[e] # Unset => envDocker[e] = envExisting[e]
            /\ envExisting[e] = Unset => envDocker[e] = Unset

\* one variable restored and one unset, both having held a value before
C24_Witness ==
    /\ envRet = "nil"
    /\ envBefore = [e \in DockerDaemonEnvs |-> "foo"]
    /\ envExisting["DOCKER_HOST"] = "bar"
    /\ envExisting["DOCKER_CERT_PATH"] = Unset
    /\ envDocker["DOCKER_HOST"] = "bar"
    /\ envDocker["DOCKER_CERT_PATH"] = Unset

(***************************************************************************)
(* Properties of WaitForNode and of the bootstrapper's client              *)
(***************************************************************************)
GateIdx(g) ==
    CHOOSE i \in 1..6 : GateList("theirs")[i] = g

Probed == {wLog[i] : i \in 1..Len(wLog)}

Returned == wPc = "done"

\* C25: WaitForNode runs a gate if and only if it is selected, in the order
\* apiserver, system pods, default service account, apps running, node
\* conditions, node ready; the first failing gate makes it return an error
\* without running later gates; for a node that is not a control plane, or
\* with no component selected, it returns success without any probe.
C25_GatesAsSelected ==
    /\ Probed \subseteq wCfg.vc
    /\ \A i, j \in 1..Len(wLog) : i < j => GateIdx(wLog[i]) <= GateIdx(wLog[j])
    /\ \A g \in wCfg.vc :
          (wLog # <<>> /\ GateIdx(g) < GateIdx(wLog[Len(wLog)])) => g \in Probed
    /\ wFailed # NoFail =>
          /\ Returned
          /\ wRet # NilRet
          /\ wLog[Len(wLog)] = wFailed.gate
    /\ (Returned /\ wRet = NilRet /\ wCfg.cp) => Probed = wCfg.vc
    /\ (Returned /\ (~wCfg.cp \/ wCfg.vc = {})) => wRet = NilRet /\ wLog = <<>>

\* with apiserver, apps running and node ready selected the system pods gate
\* was skipped and the failure of apps running stopped the call
C25_Witness ==
    /\ Returned
    /\ wCfg = [cp |-> TRUE, vc |-> {"apiserver", "apps-running", "node-ready"}]
    /\ wLog = <<"apiserver", "apps-running">>
    /\ wFailed.gate = "apps-running"
    /\ wRet = WaitErr("waiting for apps_running", "timeout")

\* C26: with the node conditions gate selected and the node reporting disk,
\* memory or PID pressure or an unavailable network, WaitForNode returns an
\* error carrying that condition, advice printed or not, and the node ready
\* gate is not run afterwards.
C26_NodePressureIsAnError ==
    wFailed.gate = "node-conditions" =>
        /\ Returned
        /\ wRet # NilRet
        /\ wRet.cause = wFailed.cause
        /\ wRet.cause \in PressureKinds
        /\ "node-ready" \notin Probed

\* disk pressure reported with node ready selected too, advice printed
C26_Witness ==
    /\ Returned
    /\ wSide = "HEAD"
    /\ {"node-conditions", "node-ready"} \subseteq wCfg.vc
    /\ wFailed = [gate |-> "node-conditions", cause |-> "ErrDiskPressure"]
    /\ wAdvised = "ErrDiskPressure"
    /\ wRet.cause = "ErrDiskPressure"

\* C27 as stated: the client is made lazily, reused once made, not cached
\* when its creation failed, and discarded when the driver fails.
C27_ClientDiscardedOnFailure ==
    /\ wLastClient = "none" => ~k8sClient
    /\ wCreated <= 1
    /\ wLastClient = "failed" => ~k8sClient
    /\ (Returned /\ wFailed # NoFail) => ~k8sClient

\* C27: no client exists before the first client() call, a client that was
\* made is the one every later call returns, a failed creation is not
\* cached, and the cached client is kept when the driver fails.
C27_ClientLazyCachedKept ==
    /\ wLastClient = "none" => ~k8sClient /\ wCreated = 0
    /\ wCreated <= 1
    /\ wLastClient = "failed" => ~k8sClient /\ wCreated = 0
    /\ wLastClient \in {"created", "cached"} => k8sClient /\ wCreated = 1
    /\ (Returned /\ wFailed # NoFail) => k8sClient

\* a second WaitForNode, after one that failed, got the cached client and
\* failed at a probe too: the client is still there
C27_Witness ==
    /\ wWaits = 2
    /\ Returned
    /\ wLastClient = "cached"
    /\ wFailed.gate = "apiserver"
    /\ wCreated = 1
    /\ k8sClient

(***************************************************************************)
(* Properties of Bootstrapper.Wait                                         *)
(***************************************************************************)
\* names, in layer order, up to and including the first that does not come up
UpTo(names) ==
    LET down == {i \in 1..Len(names) : names[i] \notin pdUp}
    IN  IF down = {} THEN names
        ELSE SubSeq(names, 1, CHOOSE i \in down : \A j \in down : i <= j)

\* what a finished Wait must have waited for and returned, given the layers
WaitedFor(names) ==
    (pdPc = "done" /\ pdRet # "k8s client") =>
        /\ pdLog = UpTo(names)
        /\ pdRet = "nil" <=> \A i \in 1..Len(names) : names[i] \in pdUp

\* C28 as stated: under CNI only the dns layer is skipped; apiserver, proxy,
\* etcd, scheduler and controller-manager are waited for in layer order and
\* the first layer that does not become Running aborts the wait.
C28_OnlyDNSSkipped ==
    pdCni => WaitedFor(<<"apiserver", "proxy", "etcd", "scheduler", "controller">>)

\* C28: under CNI the layers selected by k8s-app, proxy and dns, are skipped;
\* apiserver, etcd, scheduler and controller-manager are waited for in layer
\* order and the first layer that does not become Running aborts the wait.
C28_K8sAppLayersSkipped ==
    pdCni => WaitedFor(<<"apiserver", "etcd", "scheduler", "controller">>)

\* under CNI, with no proxy and no scheduler pod coming up, the wait went
\* past the proxy layer and stopped at the scheduler
C28_Witness ==
    /\ pdCni
    /\ pdPc = "done"
    /\ pdUp = {"apiserver", "etcd", "controller", "dns"}
    /\ pdLog = <<"apiserver", "etcd", "scheduler">>
    /\ pdRet = "waiting for component=kube-scheduler"

(***************************************************************************)
(* Properties of minikube ssh                                              *)
(***************************************************************************)
\* C29: the exit code of the ssh command equals the exit code of the remote
\* command it ran, for every remote exit code.
C29_RemoteExitCodeInherited ==
    (sshExit # -1 /\ sshRan) => sshExit = sshIn.remote

(***************************************************************************)
(* Properties of StartCluster: what precedes kubeadm init                  *)
(***************************************************************************)
\* positions of the kubeadm init commands in the log
InitCmds == {i \in 1..Len(log) : log[i].c = "kubeadm init"}

\* the position of the last c before position i, 0 when there is none
LastBefore(c, i) ==
    LET js == {j \in 1..(i - 1) : log[j].c = c}
    IN  IF js = {} THEN 0 ELSE CHOOSE j \in js : \A k \in js : k <= j

\* kubeadm reset commands issued after position b and before position i
ResetsBetween(b, i) == {j \in (b + 1)..(i - 1) : log[j].c = "kubeadm reset"}

\* the call of init (1: the first attempt, 2: the retry) that issued command i
Attempt(i) == Cardinality({j \in 1..(i - 1) : log[j].c = "init"})

\* C30 as stated: every kubeadm init command is preceded by clearStaleConfigs
\* and then by the copy of conf.new over conf, with no kubeadm reset between
\* that copy and the init command.
C30_ClearThenCopyThenInit ==
    \A i \in InitCmds :
        LET a == LastBefore("clearStaleConfigs", i)
            b == LastBefore("cp", i)
        IN  /\ a > 0 /\ b > a
            /\ ResetsBetween(b, i) = {}

\* C30: every kubeadm init command is preceded by the copy of conf.new over
\* conf and then by clearStaleConfigs; no kubeadm reset lies between the
\* copy and the first init command; the retry is not preceded by a new
\* copy: a kubeadm reset lies between the copy and the retry's init command.
C30_CopyThenClearThenInit ==
    \A i \in InitCmds :
        LET a == LastBefore("clearStaleConfigs", i)
            b == LastBefore("cp", i)
            first == Attempt(i) = 1
        IN  /\ b > 0 /\ log[b].ok
            /\ a > b /\ log[a].ok
            /\ first => ResetsBetween(b, i) = {}
            /\ ~first => Cardinality(ResetsBetween(b, i)) = 1

\* a fresh start whose first kubeadm init failed and whose retry succeeded
C30_Witness ==
    /\ pc = "done"
    /\ ret = "nil"
    /\ Cardinality(InitCmds) = 2
    /\ LastBefore("kubeadm reset", Len(log) + 1) > LastBefore("cp", Len(log) + 1)
    /\ Cardinality({j \in 1..Len(log) : log[j].c = "cp"}) = 1

C32_OverlayAfterRBAC ==
    /\ task.overlay # "idle" => cfg.kic /\ ~cfg.docker
    /\ task.overlay # "idle" => Finished(task.rbac)
    /\ (Finished(task.rbac) /\ cfg.kic /\ ~cfg.docker) => task.overlay # "idle"
    /\ (pc = "done" /\ task.rbac # "idle" /\ cfg.kic /\ ~cfg.docker) =>
          Finished(task.overlay)

\* the overlay was applied after the RBAC elevation had failed
C32_Witness ==
    /\ cfg.kic /\ ~cfg.docker
    /\ task.rbac = "failed"
    /\ task.overlay = "ok"
    /\ pc = "done"

(***************************************************************************)
(* Properties of restartCluster: the addon phase                           *)
(***************************************************************************)
\* the addon phase commands issued
Addons == At("phase addon all")

\* C33: in restartCluster the addon phase runs only after the waits for the
\* apiserver process, the apiserver health and the system pods have all
\* succeeded; it is run again after each failure until it succeeds or the
\* retry budget is used up, and then restartCluster returns an error; a
\* failure of the resource limit adjustment that follows does not make
\* restartCluster fail.
C33_AddonPhaseRetried ==
    /\ \A i \in Addons : \A w \in Waits :
          \E j \in At(w) : j < i /\ log[j].ok
    /\ \A i \in Addons :
          IF log[i].ok
          THEN \A j \in Addons : j <= i
          ELSE \/ i + 1 \in Addons
               \/ pc = "rc_addon" /\ i = Len(log)
               \/ restartRet = "addons" /\ Cardinality(Addons) = MaxAddonTries
    /\ restartRet = "addons" =>
          /\ Cardinality(Addons) = MaxAddonTries
          /\ \A i \in Addons : ~log[i].ok
    /\ \A i \in At("AdjustResourceLimits") :
          /\ restartRet = "nil"
          /\ i - 1 \in Addons /\ log[i - 1].ok

\* the addon phase failed once and then succeeded, the limits could not be
\* adjusted, and restartCluster returned nil
C33_Witness ==
    /\ restartRet = "nil"
    /\ Cardinality(Addons) = 2
    /\ \E i \in At("AdjustResourceLimits") : ~log[i].ok
    /\ pc = "done"
    /\ ret = "nil"

(***************************************************************************)
(* C34: whenever StartCmd returns an error of its own making (the session  *)
(* could not be opened, a pipe could not be had, the command could not be  *)
(* started), the runner holds no session afterwards, so that a following   *)
(* StartCmd is not refused as "another SSH command has been started"       *)
(***************************************************************************)
C34_NoSessionAfterFailedStart ==
    (rres.op = "StartCmd" /\ rres.err \in {"NewSession", "pipe", "start"})
        => rS = 0

(***************************************************************************)
(* C35: a WaitCmd that is given the StartedCmd of the StartCmd that set    *)
(* the runner's session eventually returns: it does not block forever on   *)
(* the wait group of the output pumps, whether StartCmd returned nil or    *)
(* failed on a pipe or on starting the command                             *)
(***************************************************************************)
C35_WaitCmdReturns ==
    (rpc = "waiting" /\ scs[rarg].sess = rS) ~> (rpc = "idle")


(***************************************************************************)
(* C36: elevateKubeSystemPrivileges returns nil only if the minikube-rbac  *)
(* binding was created or already existed and, when default-sa             *)
(* verification is selected, only after the default ServiceAccount was     *)
(* seen to exist; a creation failure other than "already exists" yields    *)
(* an error                                                                *)
(***************************************************************************)
C36_NilOnlyWhenBoundAndVerified ==
    \A i \in DOMAIN rbLog :
        /\ rbLog[i].ret = "nil" =>
              /\ rbLog[i].create \in {"created", "AlreadyExists"}
              /\ rbLog[i].verify => rbLog[i].saSeen
        /\ rbLog[i].create = "fault" => rbLog[i].ret # "nil"


(***************************************************************************)
(* C37: the client returned by a call of client(ip, port) targets the      *)
(* endpoint https://ip:port given to that call, whatever ip and port the   *)
(* earlier calls on the same bootstrapper were given                       *)
(***************************************************************************)
C37_ClientTargetsGivenEndpoint ==
    \A i \in DOMAIN kcLog :
        kcLog[i].err = "nil" =>
            kcLog[i].target = Endpoint(kcLog[i].ip, kcLog[i].port)


(***************************************************************************)
(* C38: the manifest GenerateCiliumYAML returns depends only on the        *)
(* Kubernetes version of the receiver: two calls for the same version      *)
(* return the same manifest whatever was called before, and a call for a   *)
(* version of 1.30 or later returns the manifest with its appArmorProfile  *)
(* fields also after a call for an earlier version                         *)
(***************************************************************************)
C38_ManifestDependsOnVersionOnly ==
    /\ \A i, j \in DOMAIN cyLog :
          (cyLog[i].version = cyLog[j].version
              /\ cyLog[i].err = "nil" /\ cyLog[j].err = "nil")
          => cyLog[i].out = cyLog[j].out
    /\ \A i \in DOMAIN cyLog :
          (cyLog[i].err = "nil" /\ ~NeedsStrip(cyLog[i].version))
          => cyLog[i].out = Embedded

(***************************************************************************)
(* C39: Add appends exactly one node whose ControlPlane and Worker flags   *)
(* are the controlPlane and worker arguments and whose version is the      *)
(* k8sVersion argument or, when that is empty, the cluster's version;      *)
(* Delete of a name that exists removes exactly the first node of that     *)
(* name and keeps the others in order; Delete of an unknown name returns   *)
(* an error and leaves the nodes as they were                              *)
(***************************************************************************)
C39_AddAppendsDeleteRemoves ==
    LET l == nodeLast
        first == Retrieve(l.before, l.name)
    IN /\ l.op = "Add" =>
             nodes = Append(l.before,
                            Node(l.name, l.cp, l.worker,
                                 IF l.version # "" THEN l.version ELSE ClusterVersion))
       /\ (l.op = "Delete" /\ first # -1) =>
             /\ Len(nodes) = Len(l.before) - 1
             /\ \A i \in DOMAIN nodes :
                   nodes[i] = IF i < first THEN l.before[i] ELSE l.before[i + 1]
       /\ (l.op = "Delete" /\ first = -1) =>
             /\ l.err # "nil"
             /\ nodes = l.before


(***************************************************************************)
(* C40: on a driver name that is not in the registry, Create, NewHost and  *)
(* Load return "driver does not exist" before any side effect: no lock is  *)
(* taken, no certificate is bootstrapped, no host is saved and no driver   *)
(* method is called (Load has read the host from the filestore, which is   *)
(* how it learns the driver name)                                          *)
(***************************************************************************)
C40_UnknownDriverRefusedFirst ==
    \A p \in Procs :
        (/\ kind[p] = "missing"
         /\ cpc[p] = "done"
         /\ ccalls[p] # <<E("Filestore.Load", FALSE)>>)
        => /\ cret[p] = "driver does not exist"
           /\ ccalls[p] = IF OpOf(p) = "Load"
                          THEN <<E("Filestore.Load", TRUE)>>
                          ELSE <<>>
           /\ csteps[p] = <<>>
           /\ flock # p
           /\ p \notin saved

\* Create, NewHost and Load have each been refused for a driver name that
\* is not in the registry, and a process has just been refused again
C40_Witness ==
    /\ hostRefused = HostOps
    /\ \E p \in Procs :
          /\ kind[p] = "missing"
          /\ cpc[p] = "done"
          /\ cret[p] = "driver does not exist"

====
